---------------------------- MODULE Spec2Model ----------------------------
(***************************************************************************)
(* Model of the NuvioMobile player surface.                                *)
(*                                                                         *)
(*   - isCodecError and CODEC_ERROR_PATTERNS (VideoSurface.tsx): the codec *)
(*     error classifier, a pure function over strings.  JavaScript strings *)
(*     are TLA+ strings; the regular expressions of the pattern list are   *)
(*     interpreted by a backtracking matcher (RegexMatchHere).             *)
(*   - VideoSurface (VideoSurface.tsx): the dual engine playback surface,  *)
(*     its ExoPlayer / MPV / web handlers and the engine it mounts.        *)
(*                                                                         *)
(* Specifications:                                                         *)
(*   SpecClassify  the classifier applied to a bounded family of messages  *)
(*   SpecPayload   handleExoError applied to a bounded family of payloads  *)
(*   Spec          a playback session of the surface                       *)
(***************************************************************************)
EXTENDS Integers, Sequences, FiniteSets, TLC

VARIABLES
    \* ---- classifier harness (SpecClassify) ----
    cMsg,        \* the message handed to isCodecError
    cPat,        \* index of the pattern the message embeds an instance of, 0 if built freely
    cResult,     \* "pending" before the call, then "codecError" (isCodecError
                 \* returned true) or "otherError" (false)
    \* ---- error handler harness (SpecPayload) ----
    pError,      \* the payload handed to handleExoError
    pOutcome,    \* NoOutcome before the call, then what the call did
    \* ---- sub-field order harness (SpecOrder) ----
    oError,      \* the payload whose sub-fields are extracted
    oOrder,      \* the order the extracted parts are concatenated in: a permutation
                 \* of their indices, <<>> before the concatenation
    oResult,     \* "pending", then the classification of the concatenation
    \* ---- platform capability flag ----
    isTV,            \* Platform.isTV
    \* ---- focus controller (SpecFocus, SpecFocusLive, SpecResolve) ----
    fProps,          \* the props of the control: component, enableTVFocus, preset,
                     \* focusScale, focusRingWidth, focusBorderRadius, onFocus, onBlur
    tvFocusPresets,  \* the preset table of styles/tvFocus.ts
    isFocused,       \* the state isFocused
    focusProgress,   \* the value of the Animated.Value focusProgress, in 1/Unit
    anim,            \* the Animated.timing last started on focusProgress
    fFocusCount,     \* focus events delivered to the control so far
    fBlurCount,      \* blur events delivered to the control so far
    fLast,           \* the last event delivered: "none", "focus" or "blur"
    fInterrupted,    \* whether the last event arrived while a transition was in flight
    onFocusCalls,    \* calls of the caller's onFocus so far
    onBlurCalls,     \* calls of the caller's onBlur so far
    scrollCalls,     \* calls of FlatList.scrollToIndex by ProviderFilter's onFocus
    rResolved,       \* NotResolved, then the resolved focus parameters of fProps
    twin,            \* a FocusablePressable given the props and the events of the
                     \* control (SpecTwin): its controller and its callback counts
    \* ---- player setup hook and error modal (SpecPlayer) ----
    sVariant,        \* which usePlayerSetup: "shared" (config object) or "android"
    sOS,             \* Platform.OS where the hook runs: "ios" or "android"
    mods,            \* which conditionally required modules are loaded (not null)
    sPhase,          \* "init" before the hook mounts, "mounted", "unmounted"
    sAnimDone,       \* isOpeningAnimationComplete
    sPaused,         \* paused
    sBackgrounded,   \* isAppBackgrounded.current
    statusBarHidden, \* whether the status bar is hidden
    keepAwake,       \* whether keep-awake is active
    sVolume,         \* the volume last given to setVolume, in thousandths (-1: none)
    sBrightness,     \* the brightness last given to setBrightness, in thousandths (-1: none)
    sTasks,          \* the asynchronous work of the hook that is pending
    orientationLocked, \* orientationLocked.current
    sOrientation,    \* the orientation lock in effect: "free", "landscape", "default"
    collab,          \* calls made so far to the clipboard, brightness and orientation modules
    sEvents,         \* dimension, app-state and pause events delivered so far
    sInits,          \* calls of setVolume(1.0) and of initBrightness() so far
    eMounted,        \* whether ErrorModal is mounted
    eShow,           \* showErrorModal
    copied,          \* the state copied of ErrorModal
    eAwaits,         \* setStringAsync promises of handleCopy not yet settled
    eTimers,         \* pending setTimeout(() => setCopied(false), 2000) timers
    eCopies,         \* presses of the copy button so far
    \* ---- timers of AudioTrackModal and of the web surface (SpecTimers) ----
    audio,           \* AudioTrackModal: mounted, showAudioModal, the pending
                     \* setTimeout(handleClose, 200) timers, the track selections so far
    web,             \* the web <video> effect of VideoSurface: mounted, the element
                     \* of webVideoRef, paused, the 500 ms interval, its onProgress calls
    \* ---- playback surface (Spec) ----
    platformOS,          \* Platform.OS: "android" or "web"
    useExoPlayer,        \* prop useExoPlayer: the engine selection of the surface's owner
    hasOnCodecError,     \* whether the owner supplied the optional prop onCodecError
    hasOnTracksChanged,  \* whether the owner supplied the optional prop onTracksChanged
    currentStreamUrl,    \* prop currentStreamUrl ("" when not set)
    processedStreamUrl,  \* prop processedStreamUrl
    fallbackGuard,       \* the owner's one-shot guard of the current load attempt
    loads,               \* number of stream URLs loaded so far in this session
    pastFallbacks,       \* number of earlier streams of the session that fell back
    errors,              \* the error events delivered on the current stream, oldest first
    last                 \* the last event delivered to the surface and what it did

classVars == <<cMsg, cPat, cResult>>
payloadVars == <<pError, pOutcome>>
orderVars == <<oError, oOrder, oResult>>
focusVars == <<fProps, tvFocusPresets, isFocused, focusProgress, anim, fFocusCount,
               fBlurCount, fLast, fInterrupted, onFocusCalls, onBlurCalls,
               scrollCalls, rResolved, twin>>
setupVars == <<sVariant, sOS, mods, sPhase, sAnimDone, sPaused, sBackgrounded,
               statusBarHidden, keepAwake, sVolume, sBrightness, sTasks,
               orientationLocked, sOrientation, collab, sEvents, sInits>>
modalVars == <<eMounted, eShow, copied, eAwaits, eTimers, eCopies>>
timerVars == <<audio, web>>
surfaceVars == <<platformOS, useExoPlayer, hasOnCodecError, hasOnTracksChanged,
                 currentStreamUrl, processedStreamUrl, fallbackGuard, loads,
                 pastFallbacks, errors, last>>
vars == <<cMsg, cPat, cResult, pError, pOutcome, oError, oOrder, oResult, isTV,
          fProps, tvFocusPresets, isFocused, focusProgress, anim, fFocusCount,
          fBlurCount, fLast, fInterrupted, onFocusCalls, onBlurCalls, scrollCalls,
          rResolved, twin, sVariant, sOS, mods, sPhase, sAnimDone, sPaused, sBackgrounded,
          statusBarHidden, keepAwake, sVolume, sBrightness, sTasks,
          orientationLocked, sOrientation, collab, sEvents, sInits,
          eMounted, eShow, copied, eAwaits, eTimers, eCopies, audio, web, platformOS, useExoPlayer,
          hasOnCodecError, hasOnTracksChanged, currentStreamUrl,
          processedStreamUrl, fallbackGuard, loads, pastFallbacks, errors, last>>

-----------------------------------------------------------------------------
(* JavaScript strings *)

UpperAlpha == "ABCDEFGHIJKLMNOPQRSTUVWXYZ"
LowerAlpha == "abcdefghijklmnopqrstuvwxyz"

CharAt(s, i) == SubSeq(s, i, i)

\* The lower case and upper case forms of the letters, by letter.
LowerOf == [i \in 1..26 |-> CharAt(LowerAlpha, i)]
UpperOf == [i \in 1..26 |-> CharAt(UpperAlpha, i)]
LowerMap == [c \in {UpperOf[i] : i \in 1..26} |->
                LowerOf[CHOOSE i \in 1..26 : UpperOf[i] = c]]
UpperMap == [c \in {LowerOf[i] : i \in 1..26} |->
                UpperOf[CHOOSE i \in 1..26 : LowerOf[i] = c]]

LowerChar(c) == IF c \in DOMAIN LowerMap THEN LowerMap[c] ELSE c

UpperChar(c) == IF c \in DOMAIN UpperMap THEN UpperMap[c] ELSE c

\* String.prototype.toLowerCase
RECURSIVE ToLowerCase(_)
ToLowerCase(s) ==
    IF Len(s) = 0 THEN ""
    ELSE IF Len(s) = 1 THEN LowerChar(s)
    ELSE LET h == Len(s) \div 2 IN
         ToLowerCase(SubSeq(s, 1, h)) \o ToLowerCase(SubSeq(s, h + 1, Len(s)))

\* String.prototype.toUpperCase
RECURSIVE ToUpperCase(_)
ToUpperCase(s) ==
    IF Len(s) = 0 THEN ""
    ELSE IF Len(s) = 1 THEN UpperChar(s)
    ELSE LET h == Len(s) \div 2 IN
         ToUpperCase(SubSeq(s, 1, h)) \o ToUpperCase(SubSeq(s, h + 1, Len(s)))

\* A mutant of IsLineTerminator: "." matches every character (the flag "s").
IsLineTerminatorNever(c) == FALSE

\* The characters the regular expression atom "." does not match.
IsLineTerminator(c) == c \in {"\n", "\r"}

-----------------------------------------------------------------------------
(* The codec error classifier *)

CODEC_ERROR_PATTERNS == <<
    "exceeds_capabilities",
    "no_exceeds_capabilities",
    "decoder_exception",
    "decoder.*error",
    "codec.*error",
    "unsupported.*codec",
    "mediacodec.*exception",
    "omx.*error",
    "dolby.*vision",
    "hevc.*error",
    "no suitable decoder",
    "decoder initialization failed",
    "format.no_decoder",
    "no_decoder",
    "decoding_failed",
    "error_code_decoding",
    "exoplaybackexception",
    "mediacodecvideodecoder",
    "mediacodecvideodecoderexception",
    "decoder failed" >>

\* Does pattern pat, from its position pi on, match str starting exactly at si?
\* The atoms of the pattern list are: ".*" (any run of characters other than
\* line terminators), "." (one such character) and literal characters, which
\* the "i" flag compares without regard to letter case.
RECURSIVE RegexMatchHere(_, _, _, _)
RegexMatchHere(pat, pi, str, si) ==
    IF pi > Len(pat) THEN TRUE
    ELSE IF CharAt(pat, pi) = "." /\ pi < Len(pat) /\ CharAt(pat, pi + 1) = "*"
    THEN \E k \in si..(Len(str) + 1) :
            /\ \A j \in si..(k - 1) : ~IsLineTerminator(CharAt(str, j))
            /\ RegexMatchHere(pat, pi + 2, str, k)
    ELSE IF si > Len(str) THEN FALSE
    ELSE IF CharAt(pat, pi) = "."
    THEN /\ ~IsLineTerminator(CharAt(str, si))
         /\ RegexMatchHere(pat, pi + 1, str, si + 1)
    ELSE /\ LowerChar(CharAt(pat, pi)) = LowerChar(CharAt(str, si))
         /\ RegexMatchHere(pat, pi + 1, str, si + 1)

\* A mutant of RegexTest: the pattern is anchored at the start of the string.
RegexTestAnchored(pat, str) == RegexMatchHere(pat, 1, str, 1)

\* new RegExp(pattern, 'i').test(str): an unanchored search.
RegexTest(pat, str) ==
    \E s \in 1..(Len(str) + 1) : RegexMatchHere(pat, 1, str, s)

isCodecError(errorString) ==
    LET lowerError == ToLowerCase(errorString) IN
    \E p \in 1..Len(CODEC_ERROR_PATTERNS) :
        RegexTest(CODEC_ERROR_PATTERNS[p], lowerError)


-----------------------------------------------------------------------------
(* Classifier harness: the family of messages isCodecError is applied to *)

\* Bounds of the family.
MaxPrefix == 3
MaxSuffix == 2
MaxFill == 3
MaxCase == 4
MaxFrag == 11

\* Text around an embedded pattern instance.
Prefixes == << "", "ERROR: ", "at line 1\n", "x", "Caused by: " >>
Suffixes == << "", " (code 4001)", "\nat Foo.java", "!" >>
\* Text a ".*" of a pattern stands for, none of it with a line terminator.
Fills == << "", " ", "_X1 init ", "-", "..." >>
\* The character a "." of a pattern stands for, by fill index.
Dots == << ".", " ", "X", "-", "_" >>
\* Fragments free messages are concatenated from.
Frags == << "", "decoder", "error", "\n", " ", "codec", "Network timeout",
            "no_", "Unsupported", "format", "HEVC", "omx", "_exception" >>

\* The text of pattern pat with every ".*" replaced by fill and every other
\* "." by dot.
RECURSIVE Instantiate(_, _, _)
Instantiate(pat, fill, dot) ==
    IF Len(pat) = 0 THEN ""
    ELSE IF Len(pat) >= 2 /\ SubSeq(pat, 1, 2) = ".*"
    THEN fill \o Instantiate(SubSeq(pat, 3, Len(pat)), fill, dot)
    ELSE IF CharAt(pat, 1) = "."
    THEN dot \o Instantiate(SubSeq(pat, 2, Len(pat)), fill, dot)
    ELSE CharAt(pat, 1) \o Instantiate(SubSeq(pat, 2, Len(pat)), fill, dot)

\* Every second letter in upper case, starting with the first (odd = TRUE) or
\* the second character.
RECURSIVE AlternateCase(_, _)
AlternateCase(s, odd) ==
    IF Len(s) = 0 THEN ""
    ELSE (IF odd THEN UpperChar(CharAt(s, 1)) ELSE LowerChar(CharAt(s, 1)))
         \o AlternateCase(SubSeq(s, 2, Len(s)), ~odd)

\* The letter cases an embedded text is written in.
InCase(s, c) ==
    CASE c = 1 -> s
      [] c = 2 -> ToUpperCase(s)
      [] c = 3 -> AlternateCase(s, TRUE)
      [] c = 4 -> AlternateCase(s, FALSE)
      [] OTHER -> UpperChar(CharAt(s, 1)) \o SubSeq(s, 2, Len(s))

\* A message that embeds an instance of pattern p.
Embedded(p, pre, suf, f, c) ==
    Prefixes[pre] \o InCase(Instantiate(CODEC_ERROR_PATTERNS[p], Fills[f], Dots[f]), c)
                  \o Suffixes[suf]

ClassifyInit ==
    /\ cResult = "pending"
    /\ \/ \E p \in 1..Len(CODEC_ERROR_PATTERNS), pre \in 1..MaxPrefix,
             suf \in 1..MaxSuffix, f \in 1..MaxFill, c \in 1..MaxCase :
            /\ cPat = p
            /\ cMsg = Embedded(p, pre, suf, f, c)
       \/ \E a \in 1..MaxFrag, b \in 1..MaxFrag, c \in 1..MaxFrag :
            /\ cPat = 0
            /\ cMsg = Frags[a] \o Frags[b] \o Frags[c]

\* The call isCodecError(cMsg).
Classify ==
    /\ cResult = "pending"
    /\ cResult' = IF isCodecError(cMsg) THEN "codecError" ELSE "otherError"
    /\ UNCHANGED <<cMsg, cPat, surfaceVars, payloadVars, orderVars, isTV, focusVars,
                   setupVars, modalVars, timerVars>>

-----------------------------------------------------------------------------
(* JavaScript values *)

Undefined == [t |-> "undefined"]
Null == [t |-> "null"]
Str(s) == [t |-> "string", s |-> s]
Num(n) == [t |-> "number", n |-> n]
Arr(a) == [t |-> "array", a |-> a]
Bool(b) == [t |-> "boolean", b |-> b]
\* An object: its own keys in insertion order and their values.
Obj(keys, f) == [t |-> "object", keys |-> keys, f |-> f]

\* v?.k : the property k of v, undefined when v is null or undefined, when v
\* is a primitive without that property, or when the object has no such key.
Get(v, k) ==
    IF v.t = "object" /\ k \in DOMAIN v.f THEN v.f[k] ELSE Undefined

\* ToBoolean
Truthy(v) ==
    CASE v.t = "undefined" -> FALSE
      [] v.t = "null" -> FALSE
      [] v.t = "string" -> v.s # ""
      [] v.t = "number" -> v.n # 0
      [] v.t = "boolean" -> v.b
      [] OTHER -> TRUE

Digits == "0123456789"

\* Number.prototype.toString of an integer
RECURSIVE NatToString(_)
NatToString(n) ==
    IF n < 10 THEN CharAt(Digits, n + 1)
    ELSE NatToString(n \div 10) \o CharAt(Digits, (n % 10) + 1)

NumToString(n) == IF n < 0 THEN "-" \o NatToString(0 - n) ELSE NatToString(n)

\* Array.prototype.join over already converted items
RECURSIVE JoinStrings(_, _)
JoinStrings(items, sep) ==
    IF Len(items) = 0 THEN ""
    ELSE IF Len(items) = 1 THEN items[1]
    ELSE items[1] \o sep \o JoinStrings(Tail(items), sep)

\* ToString of a primitive; the elements of the arrays of this model are primitives.
ToStringPrim(v) ==
    CASE v.t = "undefined" -> "undefined"
      [] v.t = "null" -> "null"
      [] v.t = "string" -> v.s
      [] v.t = "number" -> NumToString(v.n)
      [] OTHER -> "[object Object]"

\* The text Array.prototype.join uses for an element: null and undefined are empty.
JoinItem(v) == IF v.t \in {"undefined", "null"} THEN "" ELSE ToStringPrim(v)

JsToString(v) ==
    IF v.t = "array"
    THEN JoinStrings([i \in 1..Len(v.a) |-> JoinItem(v.a[i])], ",")
    ELSE ToStringPrim(v)

\* String(v)
String(v) == JsToString(v)

\* A mutant of Join: only the first element is used.
JoinFirst(items, sep) ==
    IF Len(items) = 0 \/ items[1].t \in {"undefined", "null"} THEN ""
    ELSE JsToString(items[1])

\* Array.prototype.join(sep) of an array of JavaScript values
Join(items, sep) ==
    JoinStrings([i \in 1..Len(items) |->
                    IF items[i].t \in {"undefined", "null"} THEN "" ELSE JsToString(items[i])],
                sep)

\* JSON string quoting (the characters of this model that JSON escapes)
RECURSIVE JsonEscape(_)
JsonEscape(s) ==
    IF Len(s) = 0 THEN ""
    ELSE IF Len(s) = 1
    THEN CASE s = "\"" -> "\\\""
           [] s = "\\" -> "\\\\"
           [] s = "\n" -> "\\n"
           [] s = "\r" -> "\\r"
           [] OTHER -> s
    ELSE LET h == Len(s) \div 2 IN
         JsonEscape(SubSeq(s, 1, h)) \o JsonEscape(SubSeq(s, h + 1, Len(s)))

\* JSON.stringify(v): a JavaScript string, or undefined for undefined.  Object
\* members whose value is undefined are left out, array elements that are
\* undefined are written null.
RECURSIVE JsonText(_)
JsonText(v) ==
    CASE v.t = "null" -> "null"
      [] v.t = "undefined" -> "null"
      [] v.t = "string" -> "\"" \o JsonEscape(v.s) \o "\""
      [] v.t = "number" -> NumToString(v.n)
      [] v.t = "array" ->
            "[" \o JoinStrings([i \in 1..Len(v.a) |-> JsonText(v.a[i])], ",") \o "]"
      [] OTHER ->
            LET present == SelectSeq(v.keys, LAMBDA k : v.f[k].t # "undefined") IN
            "{" \o JoinStrings([i \in 1..Len(present) |->
                                  "\"" \o present[i] \o "\":" \o JsonText(v.f[present[i]])],
                               ",") \o "}"

JSONstringify(v) == IF v.t = "undefined" THEN Undefined ELSE Str(JsonText(v))

-----------------------------------------------------------------------------
(* The handlers of VideoSurface.  Each is the list of external callbacks the  *)
(* handler invokes, in order, as records [cb |-> name, arg |-> argument].     *)

Call(cb, arg) == [cb |-> cb, arg |-> arg]
NoArg == [t |-> "undefined"]

\* What a run of an error handler did.
Outcome(engine, errorString, classified, calls, threw) ==
    [engine |-> engine, errorString |-> errorString, classified |-> classified,
     calls |-> calls, threw |-> threw]

NoOutcome == Outcome("none", Undefined, "none", <<>>, FALSE)

\* ---- MPV handlers ----

handleMpvLoad(data) ==
    << Call("onLoad", [duration |-> data.duration,
                       naturalSize |-> [width |-> data.width, height |-> data.height]]) >>

handleMpvProgress(data) ==
    << Call("onProgress", [currentTime |-> data.currentTime,
                           playableDuration |-> data.currentTime]) >>

\* A mutant of handleMpvError: MPV errors go through the codec classifier too.
handleMpvErrorClassified(error) ==
    IF isCodecError(error.error)
    THEN Outcome("mpv", Str(error.error), "codecError",
                 << Call("onCodecError", NoArg) >>, FALSE)
    ELSE Outcome("mpv", Str(error.error), "otherError",
                 << Call("onError", [error |-> [errorString |-> error.error]]) >>, FALSE)

handleMpvError(error) ==
    Outcome("mpv", Str(error.error), "none",
            << Call("onError", [error |-> [errorString |-> error.error]]) >>, FALSE)

handleMpvEnd == << Call("onEnd", NoArg) >>

\* ---- ExoPlayer handlers ----

\* data.audioTracks?.map(...) ?? [] and the same for the text tracks
MapTracks(tracks) ==
    IF tracks.t # "array" THEN <<>>
    ELSE [i \in 1..Len(tracks.a) |->
            LET t == tracks.a[i] IN
            [id |-> IF Get(t, "index").t \in {"undefined", "null"}
                    THEN Num(i - 1) ELSE Get(t, "index"),
             name |-> IF Truthy(Get(t, "title")) THEN Get(t, "title")
                      ELSE IF Truthy(Get(t, "language")) THEN Get(t, "language")
                      ELSE Str("Track " \o NumToString(i)),
             language |-> Get(t, "language")]]

handleExoLoad(data, onTracksChangedDefined) ==
    LET audioTracks == MapTracks(data.audioTracks)
        subtitleTracks == MapTracks(data.textTracks)
        tracks == IF onTracksChangedDefined
                     /\ (Len(audioTracks) > 0 \/ Len(subtitleTracks) > 0)
                  THEN << Call("onTracksChanged", [audioTracks |-> audioTracks,
                                                   subtitleTracks |-> subtitleTracks]) >>
                  ELSE <<>>
    IN tracks \o
       << Call("onLoad", [duration |-> data.duration,
                          naturalSize |-> IF Truthy(data.naturalSize) THEN data.naturalSize
                                          ELSE [t |-> "object", width |-> 1920, height |-> 1080],
                          audioTracks |-> data.audioTracks,
                          textTracks |-> data.textTracks]) >>

handleExoProgress(data) ==
    << Call("onProgress", [currentTime |-> data.currentTime,
                           playableDuration |-> IF data.playableDuration # 0
                                                THEN data.playableDuration
                                                ELSE data.currentTime]) >>

\* The message handleExoError extracts from its payload: a JavaScript string,
\* undefined when nothing could be extracted and JSON.stringify gives
\* undefined, or Thrown when the extraction itself throws.
Thrown == [t |-> "thrown"]

\* The array errorParts handleExoError collects from its payload, in the
\* order of the pushes.
ErrorParts(error) ==
    LET e == Get(error, "error")
        stack == Get(error, "nativeStackAndroid")
        p1 == IF e.t = "string" THEN <<e>> ELSE <<>>
        p2 == IF Truthy(Get(e, "errorString"))
              THEN Append(p1, Get(e, "errorString")) ELSE p1
        p3 == IF Truthy(Get(e, "errorCode"))
              THEN Append(p2, Str(String(Get(e, "errorCode")))) ELSE p2
        p4 == IF error.t = "string" THEN Append(p3, error) ELSE p3
        p5 == IF Truthy(stack) /\ stack.t = "array"
              THEN Append(p4, Str(Join(stack.a, " "))) ELSE p4
    IN  IF Truthy(Get(error, "message"))
        THEN Append(p5, Get(error, "message")) ELSE p5

ExtractErrorString(error) ==
    LET stack == Get(error, "nativeStackAndroid")
        errorParts == ErrorParts(error)
    IN  IF Truthy(stack) /\ stack.t # "array" THEN Thrown   \* .join is not a function
        ELSE IF Len(errorParts) > 0 THEN Str(Join(errorParts, " "))
        ELSE JSONstringify(error)

\* A mutant of handleExoError: a codec error is also propagated to onError.
handleExoErrorPropagating(error, onCodecErrorDefined) ==
    LET errorString == ExtractErrorString(error) IN
    IF errorString.t # "string"
    THEN Outcome("exoplayer", errorString, "none", <<>>, TRUE)
    ELSE Outcome("exoplayer", errorString,
                 IF isCodecError(errorString.s) THEN "codecError" ELSE "otherError",
                 (IF isCodecError(errorString.s) /\ onCodecErrorDefined
                  THEN << Call("onCodecError", NoArg) >> ELSE <<>>)
                 \o << Call("onError", [error |-> [errorString |-> errorString.s]]) >>,
                 FALSE)

\* A mutant of handleExoError: every error is propagated, none triggers fallback.
handleExoErrorNoFallback(error, onCodecErrorDefined) ==
    LET errorString == ExtractErrorString(error) IN
    IF errorString.t # "string"
    THEN Outcome("exoplayer", errorString, "none", <<>>, TRUE)
    ELSE Outcome("exoplayer", errorString,
                 IF isCodecError(errorString.s) THEN "codecError" ELSE "otherError",
                 << Call("onError", [error |-> [errorString |-> errorString.s]]) >>,
                 FALSE)

\* A mutant of handleExoError: an error that is no codec error is dropped.
handleExoErrorSilent(error, onCodecErrorDefined) ==
    LET errorString == ExtractErrorString(error) IN
    IF errorString.t # "string"
    THEN Outcome("exoplayer", errorString, "none", <<>>, TRUE)
    ELSE IF isCodecError(errorString.s)
    THEN Outcome("exoplayer", errorString, "codecError",
                 IF onCodecErrorDefined THEN << Call("onCodecError", NoArg) >> ELSE <<>>,
                 FALSE)
    ELSE Outcome("exoplayer", errorString, "otherError", <<>>, FALSE)

\* A mutant of handleExoError: the surface keeps a fallback flag of its own
\* that no new stream clears, and propagates every codec error after the
\* first fallback of the session.
handleExoErrorStaleGuard(error, onCodecErrorDefined) ==
    LET errorString == ExtractErrorString(error) IN
    IF errorString.t # "string"
    THEN Outcome("exoplayer", errorString, "none", <<>>, TRUE)
    ELSE IF isCodecError(errorString.s) /\ pastFallbacks = 0
    THEN Outcome("exoplayer", errorString, "codecError",
                 IF onCodecErrorDefined THEN << Call("onCodecError", NoArg) >> ELSE <<>>,
                 FALSE)
    ELSE Outcome("exoplayer", errorString,
                 IF isCodecError(errorString.s) THEN "codecError" ELSE "otherError",
                 << Call("onError", [error |-> [errorString |-> errorString.s]]) >>,
                 FALSE)

\* isCodecError(errorString) throws on errorString.toLowerCase() when
\* errorString is not a string.
handleExoError(error, onCodecErrorDefined) ==
    LET errorString == ExtractErrorString(error) IN
    IF errorString.t # "string"
    THEN Outcome("exoplayer", errorString, "none", <<>>, TRUE)
    ELSE IF isCodecError(errorString.s)
    THEN Outcome("exoplayer", errorString, "codecError",
                 IF onCodecErrorDefined THEN << Call("onCodecError", NoArg) >> ELSE <<>>,
                 FALSE)
    ELSE Outcome("exoplayer", errorString, "otherError",
                 << Call("onError", [error |-> [errorString |-> errorString.s]]) >>,
                 FALSE)

handleExoBuffer(data) == << Call("onBuffer", [isBuffering |-> data.isBuffering]) >>

handleExoEnd == << Call("onEnd", NoArg) >>

handleExoSeek(data) == << Call("onSeek", [currentTime |-> data.currentTime]) >>

\* The names of the callbacks a handler run invoked, in order.
Cbs(calls) == [i \in 1..Len(calls) |-> calls[i].cb]
Invoked(calls, cb) == \E i \in 1..Len(calls) : calls[i].cb = cb

-----------------------------------------------------------------------------
(* The playback surface *)

\* Bounds of a session.
MaxErrors == 2
MaxLoads == 2
MaxUrl == 2
MaxSessionError == 4
MaxMpvError == 2

Urls == << "https://cdn/a.mkv", "https://cdn/b.mkv", "https://cdn/c.mkv" >>

\* A mutant of DefaultUseExoPlayer: the surface starts on the fallback engine.
DefaultUseMpv == FALSE

\* The prop default: useExoPlayer = true.
DefaultUseExoPlayer == TRUE

\* const streamUrl = currentStreamUrl || processedStreamUrl
StreamUrlOf(current, processed) == IF current # "" THEN current ELSE processed
streamUrl == StreamUrlOf(currentStreamUrl, processedStreamUrl)

\* Video, ResizeMode and MpvPlayer are required on every platform but the web.
VideoAvailable == platformOS # "web"
MpvPlayerAvailable == platformOS # "web"

\* A mutant of MountedEngine: the selection is ignored, ExoPlayer stays mounted.
MountedEngineUnselected ==
    IF platformOS = "web" THEN "web"
    ELSE IF VideoAvailable THEN "exoplayer"
    ELSE "none"

\* The engine the render mounts.
MountedEngine ==
    IF platformOS = "web" THEN "web"
    ELSE IF useExoPlayer /\ VideoAvailable THEN "exoplayer"
    ELSE IF MpvPlayerAvailable THEN "mpv"
    ELSE "none"

\* The record of an event: the engine that produced it, its kind, the external
\* callbacks its handler invoked, and for an error the payload delivered, what
\* the handler made of it and whether the engine selection changed.
Event(engine, kind, calls, input, errorString, classified, threw, fellBack) ==
    [engine |-> engine, kind |-> kind, calls |-> calls, input |-> input,
     errorString |-> errorString, classified |-> classified, threw |-> threw,
     fellBack |-> fellBack]
Plain(engine, kind, calls) ==
    Event(engine, kind, calls, Undefined, Undefined, "none", FALSE, FALSE)
NoEvent == Plain("none", "none", <<>>)

\* What the error log keeps of an error event.
Summary(ev) == [engine |-> ev.engine, classified |-> ev.classified,
                cbs |-> Cbs(ev.calls), threw |-> ev.threw, fellBack |-> ev.fellBack]

\* Error payloads ExoPlayer delivers in a session.
SessionErrors == <<
    Obj(<<"error">>, [error |-> Obj(<<"errorCode">>,
                                    [errorCode |-> Str("MediaCodecVideoDecoderException")])]),
    Obj(<<"message">>, [message |-> Str("Network timeout")]),
    Undefined,
    Str("Decoder failed"),
    Obj(<<"error">>, [error |-> Obj(<<"errorString", "errorCode">>,
                                    [errorString |-> Str("Source error"),
                                     errorCode |-> Num(22001)])]) >>

\* Error texts MPV, or the web <video> element, delivers in a session.
MpvErrors == << "Playback failed", "HEVC decoder error: unsupported codec", "" >>

ExoLoadData ==
    { [duration |-> 120, naturalSize |-> Undefined, audioTracks |-> Undefined,
       textTracks |-> Undefined],
      [duration |-> 120, naturalSize |-> [t |-> "object", width |-> 1280, height |-> 720],
       audioTracks |-> Arr(<< Obj(<<"index", "language">>,
                                  [index |-> Num(0), language |-> Str("en")]),
                              Obj(<<"title">>, [title |-> Str("Commentary")]) >>),
       textTracks |-> Arr(<<>>)] }
ExoProgressData == { [currentTime |-> 5, playableDuration |-> 9],
                     [currentTime |-> 5, playableDuration |-> 0] }

\* ---- the surface's owner (spec.md 4.4 and 5) ----

\* engineFallback, the effect of onCodecError(): a one-shot switch to the
\* fallback engine, guarded by the flag of the current load attempt.
\* TRUE when the call switches the engine.
OwnerFallbackFires == ~fallbackGuard

OwnerEngineFallback ==
    IF OwnerFallbackFires
    THEN /\ fallbackGuard' = TRUE
         /\ useExoPlayer' = FALSE
    ELSE UNCHANGED <<fallbackGuard, useExoPlayer>>

\* Loading a new stream URL starts a new load attempt on the primary engine.
OwnerNewLoadAttempt ==
    /\ fallbackGuard' = FALSE
    /\ useExoPlayer' = DefaultUseExoPlayer

\* ---- events ----

\* What no event changes: the props other than the engine selection, the
\* session counters, and the harnesses of the other specifications.
SurfaceProps == <<platformOS, hasOnCodecError, hasOnTracksChanged,
                  currentStreamUrl, processedStreamUrl, loads, pastFallbacks,
                  classVars, payloadVars, orderVars, isTV, focusVars,
                  setupVars, modalVars, timerVars>>

\* An event other than an error: only the last event changes.
Deliver(engine, kind, calls) ==
    /\ last' = Plain(engine, kind, calls)
    /\ UNCHANGED <<SurfaceProps, useExoPlayer, fallbackGuard, errors>>

ExoLoad ==
    /\ MountedEngine = "exoplayer"
    /\ \E data \in ExoLoadData :
          Deliver("exoplayer", "load", handleExoLoad(data, hasOnTracksChanged))

ExoProgress ==
    /\ MountedEngine = "exoplayer"
    /\ \E data \in ExoProgressData :
          Deliver("exoplayer", "progress", handleExoProgress(data))

ExoBuffer ==
    /\ MountedEngine = "exoplayer"
    /\ \E b \in BOOLEAN :
          Deliver("exoplayer", "buffer", handleExoBuffer([isBuffering |-> b]))

ExoEnd ==
    /\ MountedEngine = "exoplayer"
    /\ Deliver("exoplayer", "end", handleExoEnd)

ExoSeek ==
    /\ MountedEngine = "exoplayer"
    /\ Deliver("exoplayer", "seek", handleExoSeek([currentTime |-> 42]))

\* An error event: what its handler did (out), and within the handler the
\* owner's onCodecError when the handler calls it.
DeliverError(input, out) ==
    LET called == Invoked(out.calls, "onCodecError")
        ev == Event(out.engine, "error", out.calls, input, out.errorString,
                    out.classified, out.threw, called /\ OwnerFallbackFires)
    IN /\ IF called THEN OwnerEngineFallback
          ELSE UNCHANGED <<fallbackGuard, useExoPlayer>>
       /\ last' = ev
       /\ errors' = Append(errors, Summary(ev))
       /\ UNCHANGED SurfaceProps

\* onError of the Video element: handleExoError
ExoError ==
    /\ MountedEngine = "exoplayer"
    /\ Len(errors) < MaxErrors
    /\ \E i \in 1..MaxSessionError :
       \E out \in {handleExoError(SessionErrors[i], hasOnCodecError)} :
          DeliverError(SessionErrors[i], out)

MpvLoad ==
    /\ MountedEngine = "mpv"
    /\ Deliver("mpv", "load", handleMpvLoad([duration |-> 120, width |-> 1280, height |-> 720]))

MpvProgress ==
    /\ MountedEngine = "mpv"
    /\ Deliver("mpv", "progress", handleMpvProgress([currentTime |-> 5, duration |-> 120]))

MpvEnd ==
    /\ MountedEngine = "mpv"
    /\ Deliver("mpv", "end", handleMpvEnd)

\* The MpvPlayer element is given onTracksChanged itself.
MpvTracksChanged ==
    /\ MountedEngine = "mpv"
    /\ Deliver("mpv", "tracksChanged",
               IF hasOnTracksChanged
               THEN << Call("onTracksChanged", [audioTracks |-> <<>>, subtitleTracks |-> <<>>]) >>
               ELSE <<>>)

\* The MpvPlayer element is given no onSeek and no onBuffer: a seek or a
\* buffering change of the MPV engine reaches no handler of the surface.
MpvUnhandled ==
    /\ MountedEngine = "mpv"
    /\ \E kind \in {"seek", "buffer"} : Deliver("mpv", kind, <<>>)

\* onError of the MpvPlayer element: handleMpvError
MpvError ==
    /\ MountedEngine = "mpv"
    /\ Len(errors) < MaxErrors
    /\ \E i \in 1..MaxMpvError :
       \E out \in {handleMpvError([error |-> MpvErrors[i]])} :
          DeliverError(Str(MpvErrors[i]), out)

\* The listeners the web effect attaches to the <video> element.  video is
\* what the element reports: its duration, size, position and error message
\* ("" when video.error has none).
WebVideo == [duration |-> 120, videoWidth |-> 1280, videoHeight |-> 720, currentTime |-> 7]
WebListener(kind, message) ==
    CASE kind = "loadedmetadata" ->
            << Call("onLoad", [duration |-> WebVideo.duration,
                               naturalSize |-> [width |-> WebVideo.videoWidth,
                                                height |-> WebVideo.videoHeight]]) >>
      [] kind = "ended" -> << Call("onEnd", NoArg) >>
      [] kind = "error" ->
            << Call("onError", [error |-> [errorString |->
                        IF message # "" THEN message ELSE "Unknown video error"]]) >>
      [] kind = "waiting" -> << Call("onBuffer", [isBuffering |-> TRUE]) >>
      [] kind = "canplay" -> << Call("onBuffer", [isBuffering |-> FALSE]) >>
      [] kind = "seeked" -> << Call("onSeek", [currentTime |-> WebVideo.currentTime]) >>

WebEvent ==
    /\ MountedEngine = "web"
    /\ \E kind \in {"loadedmetadata", "ended", "waiting", "canplay", "seeked"} :
          Deliver("web", kind, WebListener(kind, ""))

WebError ==
    /\ MountedEngine = "web"
    /\ Len(errors) < MaxErrors
    /\ \E i \in 1..MaxMpvError :
       \E calls \in {WebListener("error", MpvErrors[i])} :
          DeliverError(Str(MpvErrors[i]),
                       Outcome("web", Str(calls[1].arg.error.errorString), "none",
                               calls, FALSE))

\* The owner renders the surface with other stream props.  A changed
\* streamUrl is a new load attempt.
LoadStream ==
    /\ loads < MaxLoads
    /\ \E c \in {""} \cup {Urls[i] : i \in 1..MaxUrl}, q \in {Urls[i] : i \in 1..MaxUrl} :
          /\ StreamUrlOf(c, q) # streamUrl
          /\ currentStreamUrl' = c
          /\ processedStreamUrl' = q
          /\ OwnerNewLoadAttempt
          /\ loads' = loads + 1
          /\ pastFallbacks' = pastFallbacks
                              + (IF \E k \in 1..Len(errors) : errors[k].fellBack THEN 1 ELSE 0)
          /\ errors' = <<>>
          /\ last' = NoEvent
          /\ UNCHANGED <<platformOS, hasOnCodecError, hasOnTracksChanged,
                         classVars, payloadVars, orderVars, isTV, focusVars,
                  setupVars, modalVars, timerVars>>

-----------------------------------------------------------------------------
(* Error handler harness: the family of payloads handleExoError is applied to *)

\* Bounds of the family.
MaxPString == 3
MaxPCode == 3
MaxPStack == 2

\* Texts of the string fields (error, error.errorString, message) and of a
\* payload that is itself a string.
PStrings == << "", "Network timeout", "Decoder init failed", "HEVC", "source error" >>
\* Values of error.errorCode.
PCodes == << Num(0), Str("MediaCodecVideoDecoderException"), Num(24003), Str("4001") >>
\* Values of nativeStackAndroid.
PStacks == << Arr(<<>>),
              Arr(<< Str("com.google.android.exoplayer2.ExoPlaybackException"),
                     Str("MediaCodecRenderer.java:42") >>),
              Arr(<< Str("java.io.IOException") >>) >>

Opt(seq, max) == {Undefined} \cup {seq[i] : i \in 1..max}
OptStr(max) == {Undefined} \cup {Str(PStrings[i]) : i \in 1..max}

\* The values of the field error: absent, null, a string, or an object with
\* any subset of errorString and errorCode.
PErrorFields ==
    {Undefined, Null}
    \cup {Str(PStrings[i]) : i \in 1..MaxPString}
    \cup {Obj(<<"errorString", "errorCode">>, [errorString |-> es, errorCode |-> ec]) :
            es \in OptStr(MaxPString), ec \in Opt(PCodes, MaxPCode)}

\* The payloads: undefined, null, a string, or an object with any subset of
\* the fields error, nativeStackAndroid and message (the empty object included).
Payloads ==
    {Undefined, Null}
    \cup {Str(PStrings[i]) : i \in 1..MaxPString}
    \cup {Obj(<<"error", "nativeStackAndroid", "message">>,
              [error |-> e, nativeStackAndroid |-> st, message |-> m]) :
            e \in PErrorFields, st \in Opt(PStacks, MaxPStack), m \in OptStr(MaxPString)}

PayloadInit ==
    /\ pError \in Payloads
    /\ pOutcome = NoOutcome

\* The call handleExoError(pError).
HandlePayload ==
    /\ pOutcome = NoOutcome
    /\ pOutcome' = handleExoError(pError, hasOnCodecError)
    /\ UNCHANGED <<pError, surfaceVars, classVars, orderVars, isTV, focusVars,
                   setupVars, modalVars, timerVars>>

-----------------------------------------------------------------------------
(* Sub-field order harness: the parts handleExoError extracts, concatenated in
   every order and classified *)

\* Bounds of the family.
MaxOString == 3
MaxOCode == 2

OStrings == << "Decoder init", "playback error", "Network timeout", "HEVC stream" >>
OCodes == << Str("4001"), Str("decoder_exception"), Num(24003) >>
OStacks == { Undefined, Arr(<< Str("java.io.IOException"), Str("at Codec.java:7") >>) }

OOptStr == {Undefined} \cup {Str(OStrings[i]) : i \in 1..MaxOString}

\* Object payloads with any subset of the fields error.errorString,
\* error.errorCode, nativeStackAndroid and message.
OPayloads ==
    {Obj(<<"error", "nativeStackAndroid", "message">>,
         [error |-> Obj(<<"errorString", "errorCode">>,
                        [errorString |-> es, errorCode |-> ec]),
          nativeStackAndroid |-> st, message |-> m]) :
       es \in OOptStr, ec \in Opt(OCodes, MaxOCode), st \in OStacks, m \in OOptStr}

Perms(n) == {p \in [1..n -> 1..n] : \A i, j \in 1..n : p[i] = p[j] => i = j}
Permuted(parts, p) == [i \in 1..Len(parts) |-> parts[p[i]]]
Identity(n) == [i \in 1..n |-> i]

\* errorParts.join(' ') classified by isCodecError
ClassifyParts(parts) ==
    IF isCodecError(Join(parts, " ")) THEN "codecError" ELSE "otherError"

OrderInit ==
    /\ oError \in OPayloads
    /\ oOrder = <<>>
    /\ oResult = "pending"

\* The parts of oError are concatenated in some order and classified.
ClassifyPermuted ==
    /\ oResult = "pending"
    /\ LET parts == ErrorParts(oError) IN
       /\ Len(parts) > 0
       /\ \E p \in Perms(Len(parts)) :
             /\ oOrder' = p
             /\ oResult' = ClassifyParts(Permuted(parts, p))
    /\ UNCHANGED <<oError, surfaceVars, classVars, payloadVars, isTV, focusVars,
                   setupVars, modalVars, timerVars>>

-----------------------------------------------------------------------------
(* styles/tvFocus.ts and common/FocusablePressable.tsx: the focus controller.
   FocusablePressable and FocusableTouchableOpacity share the code of the
   resolution, of the handlers and of the animation; they differ in what they
   render. Numbers with a fraction are held in thousandths (a scale of 1.06
   is 1060); the transition progress is held in 1/Unit. *)

\* Resolution of the transition progress.
Unit == 100
\* Interval between two frames of the animation driver, in milliseconds.
FrameMs == 35
\* Most focus and blur events delivered to one control.
MaxFocusEvents == 3

TVFocusPresetName == {"card", "poster", "pill", "button", "icon", "listRow"}
TVFocusPreset(scale, ringWidth, borderRadius) ==
    [focusScale |-> scale, focusRingWidth |-> ringWidth, focusBorderRadius |-> borderRadius]

\* The table tvFocusPresets as the module defines it.
InitialPresets ==
    [n \in TVFocusPresetName |->
        CASE n = "card" -> TVFocusPreset(1050, 3, 16)
          [] n = "poster" -> TVFocusPreset(1060, 3, 12)
          [] n = "pill" -> TVFocusPreset(1040, 3, 999)
          [] n = "button" -> TVFocusPreset(1040, 3, 18)
          [] n = "icon" -> TVFocusPreset(1060, 3, 999)
          [] n = "listRow" -> TVFocusPreset(1030, 3, 14)]

\* A mutant of Coalesce: a || b
CoalesceOr(a, b) == IF Truthy(a) THEN a ELSE b

\* a ?? b
Coalesce(a, b) == IF a.t \in {"undefined", "null"} THEN b ELSE a

\* resolvedPreset?.field, with resolvedPreset = preset ? tvFocusPresets[preset] : undefined
PresetField(presets, preset, field) ==
    IF Truthy(preset) /\ preset.t = "string" /\ preset.s \in DOMAIN presets
    THEN Num(presets[preset.s][field])
    ELSE Undefined

resolvedBorderRadius(props, presets) ==
    Coalesce(props.focusBorderRadius,
             Coalesce(PresetField(presets, props.preset, "focusBorderRadius"), Num(12)))
resolvedScale(props, presets) ==
    Coalesce(props.focusScale,
             Coalesce(PresetField(presets, props.preset, "focusScale"), Num(1060)))
resolvedRingWidth(props, presets) ==
    Coalesce(props.focusRingWidth,
             Coalesce(PresetField(presets, props.preset, "focusRingWidth"), Num(3)))

\* The parameter enableTVFocus = Platform.isTV: the default applies to undefined only.
EnableTVFocus(props, tv) ==
    IF props.enableTVFocus.t = "undefined" THEN tv ELSE Truthy(props.enableTVFocus)

\* duration of the Animated.timing
FocusDuration == 140

NoAnim == [running |-> FALSE, fromValue |-> 0, toValue |-> 0, elapsed |-> 0]

\* A mutant of EaseOutCubic: an easing that overshoots its end value.
EaseOutBack(e) ==
    (Unit - (((FocusDuration - e) * (FocusDuration - e) * (FocusDuration - e)) * Unit)
                \div (FocusDuration * FocusDuration * FocusDuration))
    + (e * (FocusDuration - e) * Unit) \div (FocusDuration * FocusDuration)

\* Easing.out(Easing.cubic) after e of the FocusDuration milliseconds, in 1/Unit:
\* 1 - (1 - t)^3
EaseOutCubic(e) ==
    Unit - (((FocusDuration - e) * (FocusDuration - e) * (FocusDuration - e)) * Unit)
               \div (FocusDuration * FocusDuration * FocusDuration)

\* The value a timing animation gives after e milliseconds.
TimingValue(a, e) ==
    IF e >= FocusDuration THEN a.toValue
    ELSE a.fromValue + ((a.toValue - a.fromValue) * EaseOutCubic(e)) \div Unit

\* The controller: the state isFocused, the animated value and its animation.
Controller(focused, progress, a) ==
    [isFocused |-> focused, focusProgress |-> progress, anim |-> a]

\* A mutant of animateTo: a call made while a transition is in flight is ignored.
animateToIfIdle(c, toValue) ==
    IF c.anim.running THEN c
    ELSE [c EXCEPT !.anim = [running |-> TRUE, fromValue |-> c.focusProgress,
                             toValue |-> toValue * Unit, elapsed |-> 0]]

\* A mutant of animateTo: the value is first set to the opposite end.
animateToRestart(c, toValue) ==
    [c EXCEPT !.focusProgress = (1 - toValue) * Unit,
              !.anim = [running |-> TRUE, fromValue |-> (1 - toValue) * Unit,
                        toValue |-> toValue * Unit, elapsed |-> 0]]

\* animateTo(toValue): Animated.timing(focusProgress, {toValue, duration: 140,
\* easing}).start(). Starting an animation on a value stops the one in flight
\* where it is; the new one runs from the value reached to toValue.
animateTo(c, toValue) ==
    [c EXCEPT !.anim = [running |-> TRUE, fromValue |-> c.focusProgress,
                        toValue |-> toValue * Unit, elapsed |-> 0]]

\* A mutant of handleFocus: the enableTVFocus test is missing.
handleFocusUnguarded(c, enableTVFocus, onFocus) ==
    [c |-> [animateTo(c, 1) EXCEPT !.isFocused = TRUE], called |-> onFocus # "none"]

\* A mutant of handleFocus: the caller's onFocus is called inside the
\* enableTVFocus branch.
handleFocusCallbackInside(c, enableTVFocus, onFocus) ==
    [c |-> IF enableTVFocus THEN [animateTo(c, 1) EXCEPT !.isFocused = TRUE] ELSE c,
     called |-> enableTVFocus /\ onFocus # "none"]

\* handleFocus(e): the controller afterwards and whether onFocus?.(e) called
\* the caller's onFocus.
handleFocus(c, enableTVFocus, onFocus) ==
    [c |-> IF enableTVFocus THEN [animateTo(c, 1) EXCEPT !.isFocused = TRUE] ELSE c,
     called |-> onFocus # "none"]

\* A mutant of handleBlur: setIsFocused(false) is missing.
handleBlurKeepsFocused(c, enableTVFocus, onBlur) ==
    [c |-> IF enableTVFocus THEN animateTo(c, 0) ELSE c, called |-> onBlur # "none"]

\* handleBlur(e)
handleBlur(c, enableTVFocus, onBlur) ==
    [c |-> IF enableTVFocus THEN [animateTo(c, 0) EXCEPT !.isFocused = FALSE] ELSE c,
     called |-> onBlur # "none"]

\* focusProgress.interpolate({inputRange: [0, 1], outputRange: [lo, hi]})
Interpolate(progress, lo, hi) == lo + ((hi - lo) * progress) \div Unit

\* What the control renders: whether an Animated.View wraps the touchable,
\* whether the controller's handleFocus and handleBlur are attached to it, the
\* scale transform of the container, the focus shadow, and the focus ring.
Render(props, tv, presets, c) ==
    LET enableTVFocus == EnableTVFocus(props, tv) IN
    [animatedWrapper |-> props.component = "FocusablePressable" \/ enableTVFocus,
     handlersAttached |-> TRUE,
     transform |-> enableTVFocus,
     scale |-> IF enableTVFocus
               THEN Interpolate(c.focusProgress, 1000, resolvedScale(props, presets).n)
               ELSE 1000,
     shadow |-> c.isFocused /\ enableTVFocus,
     ring |-> enableTVFocus,
     ringOpacity |-> IF enableTVFocus THEN c.focusProgress ELSE 0,
     ringScale |-> IF enableTVFocus THEN Interpolate(c.focusProgress, 985, 1000) ELSE 1000,
     highlight |-> enableTVFocus /\ c.isFocused]

\* ProviderFilter's onFocus: scrollToIndex is called on a TV platform only.
ProviderFilterOnFocus(tv) == IF ~tv THEN 0 ELSE 1

\* The props the callers of this repository pass (ProviderFilter,
\* AudioTrackModal, ErrorModal's dismiss button).
CallerProps(tv) ==
    { [component |-> "FocusableTouchableOpacity", enableTVFocus |-> Bool(tv),
       preset |-> Str("pill"), focusScale |-> Undefined, focusRingWidth |-> Undefined,
       focusBorderRadius |-> Num(16), onFocus |-> "scrollToIndex", onBlur |-> "none"],
      [component |-> "FocusableTouchableOpacity", enableTVFocus |-> Bool(tv),
       preset |-> Str("listRow"), focusScale |-> Undefined, focusRingWidth |-> Undefined,
       focusBorderRadius |-> Num(12), onFocus |-> "none", onBlur |-> "none"],
      [component |-> "FocusableTouchableOpacity", enableTVFocus |-> Bool(tv),
       preset |-> Str("button"), focusScale |-> Undefined, focusRingWidth |-> Undefined,
       focusBorderRadius |-> Num(12), onFocus |-> "none", onBlur |-> "none"] }

\* Props of other callers: either component, enableTVFocus left to its default,
\* forced on or forced off, a preset or none, focusScale left out, above 1 or
\* below 1, and the caller's own onFocus and onBlur.
OtherProps ==
    { [component |-> comp, enableTVFocus |-> en, preset |-> pr, focusScale |-> sc,
       focusRingWidth |-> Undefined, focusBorderRadius |-> Undefined,
       onFocus |-> "caller", onBlur |-> "caller"] :
        comp \in {"FocusablePressable", "FocusableTouchableOpacity"},
        en \in {Undefined, Bool(TRUE), Bool(FALSE)},
        pr \in {Undefined, Str("card")},
        sc \in {Undefined, Num(1100), Num(950)} }

NotResolved == [done |-> FALSE, scale |-> Undefined, ringWidth |-> Undefined,
                borderRadius |-> Undefined]

FocusInit ==
    /\ isTV \in BOOLEAN
    /\ fProps \in CallerProps(isTV) \cup OtherProps
    /\ tvFocusPresets = InitialPresets
    /\ isFocused = FALSE
    /\ focusProgress = 0
    /\ anim = NoAnim
    /\ fFocusCount = 0
    /\ fBlurCount = 0
    /\ fLast = "none"
    /\ fInterrupted = FALSE
    /\ onFocusCalls = 0
    /\ onBlurCalls = 0
    /\ scrollCalls = 0
    /\ rResolved = NotResolved

NonFocus == <<surfaceVars, classVars, payloadVars, orderVars, setupVars, modalVars, timerVars>>

\* FocusablePressable (lines 27-161 of the file), the other component of the
\* two: its resolution of the parameters and its handlers.
PressableEnableTVFocus(props, tv) ==
    IF props.enableTVFocus.t = "undefined" THEN tv ELSE Truthy(props.enableTVFocus)

PressableResolvedBorderRadius(props, presets) ==
    Coalesce(props.focusBorderRadius,
             Coalesce(PresetField(presets, props.preset, "focusBorderRadius"), Num(12)))
PressableResolvedScale(props, presets) ==
    Coalesce(props.focusScale,
             Coalesce(PresetField(presets, props.preset, "focusScale"), Num(1060)))
PressableResolvedRingWidth(props, presets) ==
    Coalesce(props.focusRingWidth,
             Coalesce(PresetField(presets, props.preset, "focusRingWidth"), Num(3)))

PressableAnimateTo(c, toValue) ==
    [c EXCEPT !.anim = [running |-> TRUE, fromValue |-> c.focusProgress,
                        toValue |-> toValue * Unit, elapsed |-> 0]]

\* A mutant of PressableHandleFocus: the caller's onFocus is called in the
\* enableTVFocus branch only.
PressableHandleFocusInside(c, enableTVFocus, onFocus) ==
    [c |-> IF enableTVFocus THEN [PressableAnimateTo(c, 1) EXCEPT !.isFocused = TRUE] ELSE c,
     called |-> enableTVFocus /\ onFocus # "none"]

PressableHandleFocus(c, enableTVFocus, onFocus) ==
    [c |-> IF enableTVFocus THEN [PressableAnimateTo(c, 1) EXCEPT !.isFocused = TRUE] ELSE c,
     called |-> onFocus # "none"]

PressableHandleBlur(c, enableTVFocus, onBlur) ==
    [c |-> IF enableTVFocus THEN [PressableAnimateTo(c, 0) EXCEPT !.isFocused = FALSE] ELSE c,
     called |-> onBlur # "none"]

\* No second control, and a FocusablePressable mounted next to the control.
NoTwin == [mounted |-> FALSE, isFocused |-> FALSE, focusProgress |-> 0, anim |-> NoAnim,
           onFocusCalls |-> 0, onBlurCalls |-> 0]
MountedTwin == [NoTwin EXCEPT !.mounted = TRUE]

\* The twin after the event the control receives is delivered to it as well.
TwinFocus(t, props, tv) ==
    IF ~t.mounted THEN t
    ELSE LET r == PressableHandleFocus(Controller(t.isFocused, t.focusProgress, t.anim),
                                       PressableEnableTVFocus(props, tv), props.onFocus)
         IN [t EXCEPT !.isFocused = r.c.isFocused, !.focusProgress = r.c.focusProgress,
                      !.anim = r.c.anim,
                      !.onFocusCalls = IF r.called THEN @ + 1 ELSE @]
TwinBlur(t, props, tv) ==
    IF ~t.mounted THEN t
    ELSE LET r == PressableHandleBlur(Controller(t.isFocused, t.focusProgress, t.anim),
                                      PressableEnableTVFocus(props, tv), props.onBlur)
         IN [t EXCEPT !.isFocused = r.c.isFocused, !.focusProgress = r.c.focusProgress,
                      !.anim = r.c.anim,
                      !.onBlurCalls = IF r.called THEN @ + 1 ELSE @]
\* The twin after the next frame of its own animation.
TwinFrame(t) ==
    IF ~t.mounted \/ ~t.anim.running THEN t
    ELSE LET el == IF t.anim.elapsed + FrameMs >= FocusDuration THEN FocusDuration
                   ELSE t.anim.elapsed + FrameMs
         IN [t EXCEPT !.focusProgress = TimingValue(t.anim, el),
                      !.anim = [t.anim EXCEPT !.elapsed = el, !.running = el < FocusDuration]]

\* The underlying control delivers a focus event: handleFocus runs.
ReceiveFocus ==
    /\ fFocusCount + fBlurCount < MaxFocusEvents
    /\ \E r \in {handleFocus(Controller(isFocused, focusProgress, anim),
                               EnableTVFocus(fProps, isTV), fProps.onFocus)} :
          /\ isFocused' = r.c.isFocused
          /\ focusProgress' = r.c.focusProgress
          /\ anim' = r.c.anim
          /\ onFocusCalls' = IF r.called THEN onFocusCalls + 1 ELSE onFocusCalls
          /\ scrollCalls' = IF r.called /\ fProps.onFocus = "scrollToIndex"
                            THEN scrollCalls + ProviderFilterOnFocus(isTV)
                            ELSE scrollCalls
    /\ fFocusCount' = fFocusCount + 1
    /\ fLast' = "focus"
    /\ fInterrupted' = anim.running
    /\ twin' = TwinFocus(twin, fProps, isTV)
    /\ UNCHANGED <<isTV, fProps, tvFocusPresets, fBlurCount, onBlurCalls, rResolved, NonFocus>>

\* The underlying control delivers a blur event: handleBlur runs.
ReceiveBlur ==
    /\ fFocusCount + fBlurCount < MaxFocusEvents
    /\ \E r \in {handleBlur(Controller(isFocused, focusProgress, anim),
                              EnableTVFocus(fProps, isTV), fProps.onBlur)} :
          /\ isFocused' = r.c.isFocused
          /\ focusProgress' = r.c.focusProgress
          /\ anim' = r.c.anim
          /\ onBlurCalls' = IF r.called THEN onBlurCalls + 1 ELSE onBlurCalls
    /\ fBlurCount' = fBlurCount + 1
    /\ fLast' = "blur"
    /\ fInterrupted' = anim.running
    /\ twin' = TwinBlur(twin, fProps, isTV)
    /\ UNCHANGED <<isTV, fProps, tvFocusPresets, fFocusCount, onFocusCalls, scrollCalls,
                   rResolved, NonFocus>>

\* The animation driver renders the next frame of the timing animation in flight.
AnimationFrame ==
    /\ anim.running
    /\ LET e == IF anim.elapsed + FrameMs >= FocusDuration THEN FocusDuration
                ELSE anim.elapsed + FrameMs IN
       /\ focusProgress' = TimingValue(anim, e)
       /\ anim' = [anim EXCEPT !.elapsed = e, !.running = e < FocusDuration]
    /\ twin' = TwinFrame(twin)
    /\ UNCHANGED <<isTV, fProps, tvFocusPresets, isFocused, fFocusCount, fBlurCount, fLast,
                   fInterrupted, onFocusCalls, onBlurCalls, scrollCalls, rResolved, NonFocus>>

\* The inputs of the resolution: presets of the table, no preset, a name the
\* table does not have; overrides left out, null, zero or a number.
ResolveInputs ==
    { [component |-> "FocusableTouchableOpacity", enableTVFocus |-> Undefined,
       preset |-> pr, focusScale |-> sc, focusRingWidth |-> rw, focusBorderRadius |-> br,
       onFocus |-> "none", onBlur |-> "none"] :
        pr \in {Undefined, Null, Str(""), Str("hero")} \cup {Str(n) : n \in TVFocusPresetName},
        sc \in {Undefined, Null, Num(0), Num(1100)},
        rw \in {Undefined, Num(0), Num(5)},
        br \in {Undefined, Num(0), Num(20)} }

ResolveInit ==
    /\ isTV = TRUE
    /\ fProps \in ResolveInputs
    /\ tvFocusPresets = InitialPresets
    /\ isFocused = FALSE
    /\ focusProgress = 0
    /\ anim = NoAnim
    /\ fFocusCount = 0
    /\ fBlurCount = 0
    /\ fLast = "none"
    /\ fInterrupted = FALSE
    /\ onFocusCalls = 0
    /\ onBlurCalls = 0
    /\ scrollCalls = 0
    /\ rResolved = NotResolved
    /\ twin = NoTwin

\* The control is rendered: its focus parameters are resolved.
ResolveFocusParams ==
    /\ ~rResolved.done
    /\ rResolved' = [done |-> TRUE,
                     scale |-> resolvedScale(fProps, tvFocusPresets),
                     ringWidth |-> resolvedRingWidth(fProps, tvFocusPresets),
                     borderRadius |-> resolvedBorderRadius(fProps, tvFocusPresets)]
    /\ UNCHANGED <<isTV, fProps, tvFocusPresets, isFocused, focusProgress, anim, fFocusCount,
                   fBlurCount, fLast, fInterrupted, onFocusCalls, onBlurCalls, scrollCalls,
                   twin, NonFocus>>

-----------------------------------------------------------------------------
(* The player setup hook usePlayerSetup, in its shared and its Android
   variant, and ErrorModal. Volume and brightness are held in thousandths. *)

\* Most dimension, app-state and pause events delivered to one mount.
MaxSetupEvents == 2
\* Most presses of the copy button.
MaxCopies == 2

NoModules == [Brightness |-> FALSE, ScreenOrientation |-> FALSE, RNImmersiveMode |-> FALSE,
              NavigationBar |-> FALSE, ExpoClipboard |-> FALSE]

\* The try blocks of the conditional imports: the first ok require calls of the
\* hook succeed (the next one throws), and clipOk tells whether
\* require('expo-clipboard') succeeds.
RequireModules(variant, ok, clipOk) ==
    [Brightness |-> IF variant = "shared" THEN ok >= 1 ELSE ok >= 3,
     ScreenOrientation |-> variant = "shared" /\ ok >= 2,
     RNImmersiveMode |-> variant = "android" /\ ok >= 1,
     NavigationBar |-> variant = "android" /\ ok >= 2,
     ExpoClipboard |-> clipOk]

\* A mutant of LoadModules: the modules are required on a TV as well.
LoadModulesOnTV(variant, tv, ok, clipOk) == RequireModules(variant, ok, clipOk)

\* The module-level conditional imports: if (!isTV) { try { ... = require(...) } catch {} }
LoadModules(variant, tv, ok, clipOk) ==
    IF tv THEN NoModules ELSE RequireModules(variant, ok, clipOk)

NoInits == [setVolume |-> 0, initBrightness |-> 0]

\* The initial setup of the setup effect: setVolume(1.0) and initBrightness().
InitialSetup(inits) ==
    [setVolume |-> inits.setVolume + 1, initBrightness |-> inits.initBrightness + 1]

NoTasks == [brightnessRead |-> 0, lockTask |-> FALSE, lockPromise |-> 0, restore |-> "none"]
NoCalls == [clipboard |-> 0, brightness |-> 0, orientation |-> 0]

\* enableImmersiveMode and disableImmersiveMode: the status bar afterwards.
enableImmersiveMode(variant, os, tv, hidden) ==
    IF variant = "shared" THEN TRUE
    ELSE IF os = "android" /\ ~tv THEN TRUE ELSE hidden
disableImmersiveMode(variant, os, tv, hidden) ==
    IF variant = "shared" THEN FALSE
    ELSE IF os = "android" /\ ~tv THEN FALSE ELSE hidden

\* initBrightness(), up to its first await: without the Brightness module the
\* fallback 1.0 is reported; with it the read of the brightness is pending
\* (the Android variant first asks for the system brightness and its mode).
initBrightness(variant, os, tv, m, brightness, tasks, calls) ==
    IF ~m.Brightness
    THEN [brightness |-> 1000, tasks |-> tasks, calls |-> calls]
    ELSE [brightness |-> brightness,
          tasks |-> [tasks EXCEPT !.brightnessRead = @ + 1],
          calls |-> IF variant = "android" /\ os = "android" /\ ~tv
                    THEN [calls EXCEPT !.brightness = @ + 2] ELSE calls]

\* What Brightness.getBrightnessAsync() gives: a brightness, or -1 when it rejects.
BrightnessReadings == {-1, 400, 1000}

SetupInit ==
    /\ sVariant \in {"shared", "android"}
    /\ sOS \in {"ios", "android"}
    /\ \E ok \in 0..3, clipOk \in BOOLEAN : mods = LoadModules(sVariant, isTV, ok, clipOk)
    /\ sPhase = "init"
    /\ sAnimDone = FALSE
    /\ sPaused \in BOOLEAN
    /\ sBackgrounded = FALSE
    /\ statusBarHidden = FALSE
    /\ keepAwake = FALSE
    /\ sVolume = -1
    /\ sBrightness = -1
    /\ sTasks = NoTasks
    /\ orientationLocked = FALSE
    /\ sOrientation = "free"
    /\ collab = NoCalls
    /\ sEvents = 0
    /\ sInits = NoInits

ModalInit ==
    /\ eMounted = TRUE
    /\ eShow = TRUE
    /\ copied = FALSE
    /\ eAwaits = 0
    /\ eTimers = 0
    /\ eCopies = 0

NonPlayer == <<surfaceVars, classVars, payloadVars, orderVars, focusVars, timerVars>>
SetupProps == <<isTV, sVariant, sOS, mods, NonPlayer, modalVars>>

\* A mutant of KeepAwakeEffect: keep-awake is activated whatever paused is.
KeepAwakeAlways(paused) == TRUE

\* The keep-awake effect: activateKeepAwakeAsync() unless paused, else
\* deactivateKeepAwake().
KeepAwakeEffect(paused) == ~paused

\* The hook mounts: the effects run in order.
Mount ==
    /\ sPhase = "init"
    /\ sPhase' = "mounted"
    /\ keepAwake' = KeepAwakeEffect(sPaused)
    /\ statusBarHidden' = TRUE
    /\ sVolume' = 1000
    /\ \E ib \in {initBrightness(sVariant, sOS, isTV, mods, sBrightness, sTasks, collab)} :
          /\ sBrightness' = ib.brightness
          /\ collab' = ib.calls
          /\ sTasks' = [ib.tasks EXCEPT !.lockTask =
                           /\ sVariant = "shared" /\ mods.ScreenOrientation
                           /\ sAnimDone /\ ~orientationLocked]
    /\ sInits' = InitialSetup(sInits)
    /\ UNCHANGED <<SetupProps, sAnimDone, sPaused, sBackgrounded, orientationLocked,
                   sOrientation, sEvents>>

\* isOpeningAnimationComplete becomes true (shared variant): the effects that
\* depend on it are cleaned up and run again.
OpeningAnimationCompletes ==
    /\ sPhase = "mounted" /\ sVariant = "shared" /\ ~sAnimDone
    /\ sAnimDone' = TRUE
    /\ statusBarHidden' = TRUE
    /\ sVolume' = 1000
    /\ \E ib \in {initBrightness(sVariant, sOS, isTV, mods, sBrightness, sTasks, collab)} :
          /\ sBrightness' = ib.brightness
          /\ collab' = ib.calls
          /\ sTasks' = [ib.tasks EXCEPT !.lockTask =
                           mods.ScreenOrientation /\ ~orientationLocked]
    /\ sInits' = InitialSetup(sInits)
    /\ UNCHANGED <<SetupProps, sPhase, sPaused, sBackgrounded, keepAwake,
                   orientationLocked, sOrientation, sEvents>>

\* The Dimensions 'change' listener.
DimensionsChange ==
    /\ sPhase = "mounted" /\ sEvents < MaxSetupEvents
    /\ sEvents' = sEvents + 1
    /\ statusBarHidden' = IF sVariant = "shared" /\ ~sAnimDone THEN statusBarHidden
                          ELSE enableImmersiveMode(sVariant, sOS, isTV, statusBarHidden)
    /\ UNCHANGED <<SetupProps, sInits, sPhase, sAnimDone, sPaused, sBackgrounded, keepAwake,
                   sVolume, sBrightness, sTasks, orientationLocked, sOrientation, collab>>

\* The AppState 'change' listener onAppStateChange(state).
AppStateChange ==
    /\ sPhase = "mounted" /\ sEvents < MaxSetupEvents
    /\ sEvents' = sEvents + 1
    /\ \E state \in {"active", "background", "inactive"} :
          IF state = "active"
          THEN /\ sBackgrounded' = FALSE
               /\ statusBarHidden' =
                     IF sVariant = "shared" /\ ~sAnimDone THEN statusBarHidden
                     ELSE enableImmersiveMode(sVariant, sOS, isTV, statusBarHidden)
          ELSE /\ sBackgrounded' = TRUE
               /\ UNCHANGED statusBarHidden
    /\ UNCHANGED <<SetupProps, sInits, sPhase, sAnimDone, sPaused, keepAwake, sVolume, sBrightness,
                   sTasks, orientationLocked, sOrientation, collab>>

\* paused changes: the keep-awake effect is cleaned up and runs again.
PausedChanges ==
    /\ sPhase = "mounted" /\ sEvents < MaxSetupEvents
    /\ sEvents' = sEvents + 1
    /\ sPaused' = ~sPaused
    /\ keepAwake' = KeepAwakeEffect(sPaused')
    /\ UNCHANGED <<SetupProps, sInits, sPhase, sAnimDone, sBackgrounded, statusBarHidden, sVolume,
                   sBrightness, sTasks, orientationLocked, sOrientation, collab>>

\* The pending part of initBrightness runs: getBrightnessAsync() is called and
\* its result, or 1.0 when it rejects, is given to setBrightness.
BrightnessTaskRuns ==
    /\ sTasks.brightnessRead > 0
    /\ sTasks' = [sTasks EXCEPT !.brightnessRead = @ - 1]
    /\ collab' = [collab EXCEPT !.brightness = @ + 1]
    /\ \E r \in BrightnessReadings : sBrightness' = IF r = -1 THEN 1000 ELSE r
    /\ UNCHANGED <<SetupProps, sInits, sPhase, sAnimDone, sPaused, sBackgrounded, statusBarHidden,
                   keepAwake, sVolume, orientationLocked, sOrientation, sEvents>>

\* The deferred task of the orientation effect runs: lockAsync(LANDSCAPE).
LockTaskRuns ==
    /\ sTasks.lockTask
    /\ sTasks' = [sTasks EXCEPT !.lockTask = FALSE, !.lockPromise = @ + 1]
    /\ collab' = [collab EXCEPT !.orientation = @ + 1]
    /\ UNCHANGED <<SetupProps, sInits, sPhase, sAnimDone, sPaused, sBackgrounded, statusBarHidden,
                   keepAwake, sVolume, sBrightness, orientationLocked, sOrientation, sEvents>>

\* A lockAsync(LANDSCAPE) promise settles: fulfilled (the lock is in effect
\* and orientationLocked.current is set) or rejected.
LockSettles ==
    /\ sTasks.lockPromise > 0
    /\ sTasks' = [sTasks EXCEPT !.lockPromise = @ - 1]
    /\ \E fulfilled \in BOOLEAN :
          IF fulfilled
          THEN sOrientation' = "landscape" /\ orientationLocked' = TRUE
          ELSE UNCHANGED <<sOrientation, orientationLocked>>
    /\ UNCHANGED <<SetupProps, sInits, sPhase, sAnimDone, sPaused, sBackgrounded, statusBarHidden,
                   keepAwake, sVolume, sBrightness, collab, sEvents>>

\* A mutant of Unmount: the cleanup of the orientation effect does not cancel
\* the deferred lock task.
UnmountKeepsLockTask ==
    /\ sPhase = "mounted"
    /\ sPhase' = "unmounted"
    /\ keepAwake' = FALSE
    /\ statusBarHidden' = disableImmersiveMode(sVariant, sOS, isTV, statusBarHidden)
    /\ IF sVariant = "shared" /\ mods.ScreenOrientation
       THEN /\ sTasks' = [sTasks EXCEPT !.restore = "lockDefault"]
            /\ collab' = [collab EXCEPT !.orientation = @ + 1]
       ELSE UNCHANGED <<sTasks, collab>>
    /\ UNCHANGED <<SetupProps, sInits, sAnimDone, sPaused, sBackgrounded, sVolume,
                   sBrightness, orientationLocked, sOrientation, sEvents>>

\* The hook unmounts: the cleanups of the effects run.
Unmount ==
    /\ sPhase = "mounted"
    /\ sPhase' = "unmounted"
    /\ keepAwake' = FALSE
    /\ statusBarHidden' = disableImmersiveMode(sVariant, sOS, isTV, statusBarHidden)
    /\ IF sVariant = "shared" /\ mods.ScreenOrientation
       THEN /\ sTasks' = [sTasks EXCEPT !.lockTask = FALSE, !.restore = "lockDefault"]
            /\ collab' = [collab EXCEPT !.orientation = @ + 1]
       ELSE /\ sTasks' = [sTasks EXCEPT !.lockTask = FALSE]
            /\ UNCHANGED collab
    /\ UNCHANGED <<SetupProps, sInits, sAnimDone, sPaused, sBackgrounded, sVolume, sBrightness,
                   orientationLocked, sOrientation, sEvents>>

\* The restore of the unmount cleanup proceeds: lockAsync(DEFAULT) settles
\* and, when fulfilled, unlockAsync() is called; then unlockAsync() settles.
\* The orientation module serves its requests in the order they are made, so
\* a lockAsync(LANDSCAPE) still pending settles first. restore ends "restored"
\* when both requests were fulfilled and "failed" when one was rejected.
RestoreSettles ==
    /\ sTasks.restore \in {"lockDefault", "unlock"}
    /\ sTasks.lockPromise = 0
    /\ \E fulfilled \in BOOLEAN :
          IF sTasks.restore = "lockDefault" /\ fulfilled
          THEN /\ sOrientation' = "default"
               /\ sTasks' = [sTasks EXCEPT !.restore = "unlock"]
               /\ collab' = [collab EXCEPT !.orientation = @ + 1]
          ELSE /\ sOrientation' = IF fulfilled THEN "free" ELSE sOrientation
               /\ sTasks' = [sTasks EXCEPT !.restore =
                                 IF fulfilled THEN "restored" ELSE "failed"]
               /\ UNCHANGED collab
    /\ UNCHANGED <<SetupProps, sInits, sPhase, sAnimDone, sPaused, sBackgrounded, statusBarHidden,
                   keepAwake, sVolume, sBrightness, orientationLocked, sEvents>>

\* A state setter of a component: React ignores it once the component is unmounted.
SetState(mounted, old, new) == IF mounted THEN new ELSE old

\* ErrorModal renders the copy button only with the clipboard module loaded.
CopyButtonRendered == eMounted /\ eShow /\ mods.ExpoClipboard

ModalProps == <<isTV, sVariant, sOS, mods, NonPlayer, eMounted, sInits, sPhase, sAnimDone, sPaused,
                sBackgrounded, statusBarHidden, keepAwake, sVolume, sBrightness, sTasks,
                orientationLocked, sOrientation, sEvents>>

\* The copy button is pressed: handleCopy() up to its await.
PressCopy ==
    /\ CopyButtonRendered
    /\ eCopies < MaxCopies
    /\ eCopies' = eCopies + 1
    /\ IF ~mods.ExpoClipboard
       THEN UNCHANGED <<collab, eAwaits>>
       ELSE /\ collab' = [collab EXCEPT !.clipboard = @ + 1]
            /\ eAwaits' = eAwaits + 1
    /\ UNCHANGED <<ModalProps, eShow, copied, eTimers>>

\* A setStringAsync promise settles: when fulfilled handleCopy continues with
\* setCopied(true) and setTimeout(() => setCopied(false), 2000).
CopySettles ==
    /\ eAwaits > 0
    /\ eAwaits' = eAwaits - 1
    /\ \E fulfilled \in BOOLEAN :
          IF fulfilled
          THEN copied' = SetState(eMounted, copied, TRUE) /\ eTimers' = eTimers + 1
          ELSE UNCHANGED <<copied, eTimers>>
    /\ UNCHANGED <<ModalProps, collab, eShow, eCopies>>

\* A 2000 ms timer of handleCopy fires: setCopied(false).
CopiedTimerFires ==
    /\ eTimers > 0
    /\ eTimers' = eTimers - 1
    /\ copied' = SetState(eMounted, copied, FALSE)
    /\ UNCHANGED <<ModalProps, collab, eShow, eAwaits, eCopies>>

\* handleClose(): setShowErrorModal(false) and onDismiss.
CloseModal ==
    /\ eMounted /\ eShow
    /\ eShow' = FALSE
    /\ UNCHANGED <<ModalProps, collab, copied, eAwaits, eTimers, eCopies>>

\* ErrorModal is unmounted. The component has no effect and so no cleanup: the
\* pending promises and timers of handleCopy stay as they are.
UnmountErrorModal ==
    /\ eMounted
    /\ eMounted' = FALSE
    /\ UNCHANGED <<isTV, setupVars, NonPlayer, collab, eShow, copied, eAwaits, eTimers,
                   eCopies>>

-----------------------------------------------------------------------------
(* The timers of AudioTrackModal and of the web effect of VideoSurface *)

\* Most presses of a track row of AudioTrackModal.
MaxSelections == 2
\* Most callbacks of the web progress interval.
MaxTicks == 2
\* Most changes of the stream URL of the web surface.
MaxUrlChanges == 1

AudioInit ==
    audio = [mounted |-> TRUE, show |-> TRUE, timers |-> 0, selections |-> 0]
AudioIdle ==
    audio = [mounted |-> FALSE, show |-> FALSE, timers |-> 0, selections |-> 0]

\* The web effect at mount: on another platform, or with no element in
\* webVideoRef, it returns before it sets the interval.
WebEffect(os, video) == os = "web" /\ video

WebInit ==
    \E video \in BOOLEAN, paused \in BOOLEAN :
        web = [mounted |-> TRUE, video |-> video, paused |-> paused,
               interval |-> WebEffect(platformOS, video), fires |-> 0, progress |-> 0,
               changes |-> 0]
WebIdle ==
    web = [mounted |-> FALSE, video |-> FALSE, paused |-> FALSE, interval |-> FALSE,
           fires |-> 0, progress |-> 0, changes |-> 0]

AudioProps == <<isTV, setupVars, modalVars, surfaceVars, classVars, payloadVars, orderVars,
                focusVars, web>>
WebProps == <<isTV, setupVars, modalVars, surfaceVars, classVars, payloadVars, orderVars,
              focusVars, audio>>

\* A track row is pressed: selectAudioTrack(track.id); setTimeout(handleClose, 200).
\* The timer id is not kept.
SelectAudioTrack ==
    /\ audio.mounted /\ audio.show
    /\ audio.selections < MaxSelections
    /\ audio' = [audio EXCEPT !.selections = @ + 1, !.timers = @ + 1]
    /\ UNCHANGED AudioProps

\* A 200 ms timer fires: handleClose() = setShowAudioModal(false).
AudioCloseTimerFires ==
    /\ audio.timers > 0
    /\ audio' = [audio EXCEPT !.timers = @ - 1, !.show = FALSE]
    /\ UNCHANGED AudioProps

\* The backdrop is pressed: handleClose().
AudioBackdropPress ==
    /\ audio.mounted /\ audio.show
    /\ audio' = [audio EXCEPT !.show = FALSE]
    /\ UNCHANGED AudioProps

\* AudioTrackModal is unmounted. The component has no effect and so no cleanup.
UnmountAudioModal ==
    /\ audio.mounted
    /\ audio' = [audio EXCEPT !.mounted = FALSE]
    /\ UNCHANGED AudioProps

\* The callback of the 500 ms interval: onProgress is called unless the video
\* is paused.
WebIntervalFires ==
    /\ web.interval
    /\ web.fires < MaxTicks
    /\ web' = [web EXCEPT !.fires = @ + 1,
                          !.progress = IF web.video /\ ~web.paused THEN @ + 1 ELSE @]
    /\ UNCHANGED WebProps

\* The <video> element is paused or resumed.
WebPausedChanges ==
    /\ web.mounted /\ web.video
    /\ web' = [web EXCEPT !.paused = ~@]
    /\ UNCHANGED WebProps

\* streamUrl changes: the cleanup of the effect clears the interval, then the
\* effect runs again.
WebStreamUrlChanges ==
    /\ web.mounted
    /\ web.changes < MaxUrlChanges
    /\ web' = [web EXCEPT !.changes = @ + 1,
                          !.interval = WebEffect(platformOS, web.video)]
    /\ UNCHANGED WebProps

\* VideoSurface is unmounted: the cleanup of the effect clears the interval.
WebUnmount ==
    /\ web.mounted
    /\ web' = [web EXCEPT !.mounted = FALSE, !.interval = FALSE]
    /\ UNCHANGED WebProps

-----------------------------------------------------------------------------
(* Specifications *)

ClassifyIdle == cMsg = "" /\ cPat = 0 /\ cResult = "pending"
PayloadIdle == pError = Undefined /\ pOutcome = NoOutcome
OrderIdle == oError = Undefined /\ oOrder = <<>> /\ oResult = "pending"
NoProps == [component |-> "none", enableTVFocus |-> Undefined, preset |-> Undefined,
            focusScale |-> Undefined, focusRingWidth |-> Undefined,
            focusBorderRadius |-> Undefined, onFocus |-> "none", onBlur |-> "none"]
PlayerIdle ==
    /\ sVariant = "shared"
    /\ sOS = "android"
    /\ mods = NoModules
    /\ sPhase = "init"
    /\ sAnimDone = FALSE
    /\ sPaused = FALSE
    /\ sBackgrounded = FALSE
    /\ statusBarHidden = FALSE
    /\ keepAwake = FALSE
    /\ sVolume = -1
    /\ sBrightness = -1
    /\ sTasks = NoTasks
    /\ orientationLocked = FALSE
    /\ sOrientation = "free"
    /\ collab = NoCalls
    /\ sEvents = 0
    /\ sInits = NoInits
    /\ eMounted = FALSE
    /\ eShow = FALSE
    /\ copied = FALSE
    /\ eAwaits = 0
    /\ eTimers = 0
    /\ eCopies = 0
    /\ AudioIdle
    /\ WebIdle
FocusRest ==
    /\ fProps = NoProps
    /\ tvFocusPresets = InitialPresets
    /\ isFocused = FALSE
    /\ focusProgress = 0
    /\ anim = NoAnim
    /\ fFocusCount = 0
    /\ fBlurCount = 0
    /\ fLast = "none"
    /\ fInterrupted = FALSE
    /\ onFocusCalls = 0
    /\ onBlurCalls = 0
    /\ scrollCalls = 0
    /\ rResolved = NotResolved
    /\ twin = NoTwin
FocusIdle == isTV = FALSE /\ FocusRest
SurfaceIdle ==
    /\ platformOS = "android"
    /\ useExoPlayer = DefaultUseExoPlayer
    /\ hasOnCodecError = TRUE
    /\ hasOnTracksChanged = TRUE
    /\ currentStreamUrl = ""
    /\ processedStreamUrl = Urls[1]
    /\ fallbackGuard = FALSE
    /\ loads = 1
    /\ pastFallbacks = 0
    /\ errors = <<>>
    /\ last = NoEvent

SurfaceInit ==
    /\ platformOS \in {"android", "web"}
    /\ useExoPlayer = DefaultUseExoPlayer
    /\ hasOnCodecError \in BOOLEAN
    /\ hasOnTracksChanged \in BOOLEAN
    /\ currentStreamUrl \in {"", Urls[1]}
    /\ processedStreamUrl = Urls[1]
    /\ fallbackGuard = FALSE
    /\ loads = 1
    /\ pastFallbacks = 0
    /\ errors = <<>>
    /\ last = NoEvent

Init == SurfaceInit /\ ClassifyIdle /\ PayloadIdle /\ OrderIdle /\ FocusIdle /\ PlayerIdle

Next ==
    \/ ExoLoad \/ ExoProgress \/ ExoBuffer \/ ExoEnd \/ ExoSeek \/ ExoError
    \/ MpvLoad \/ MpvProgress \/ MpvEnd \/ MpvTracksChanged \/ MpvUnhandled
    \/ MpvError \/ WebEvent \/ WebError \/ LoadStream

Spec == Init /\ [][Next]_vars

InitClassify ==
    ClassifyInit /\ SurfaceIdle /\ PayloadIdle /\ OrderIdle /\ FocusIdle /\ PlayerIdle
NextClassify == Classify
SpecClassify == InitClassify /\ [][NextClassify]_vars

InitPayload ==
    /\ PayloadInit
    /\ ClassifyIdle
    /\ OrderIdle
    /\ FocusIdle
    /\ PlayerIdle
    /\ platformOS = "android"
    /\ useExoPlayer = DefaultUseExoPlayer
    /\ hasOnCodecError \in BOOLEAN
    /\ hasOnTracksChanged = TRUE
    /\ currentStreamUrl = ""
    /\ processedStreamUrl = Urls[1]
    /\ fallbackGuard = FALSE
    /\ loads = 1
    /\ pastFallbacks = 0
    /\ errors = <<>>
    /\ last = NoEvent
NextPayload == HandlePayload
SpecPayload == InitPayload /\ [][NextPayload]_vars

InitOrder ==
    OrderInit /\ SurfaceIdle /\ ClassifyIdle /\ PayloadIdle /\ FocusIdle /\ PlayerIdle
NextOrder == ClassifyPermuted
SpecOrder == InitOrder /\ [][NextOrder]_vars

InitFocus ==
    FocusInit /\ twin = NoTwin /\ SurfaceIdle /\ ClassifyIdle /\ PayloadIdle /\ OrderIdle /\ PlayerIdle
NextFocus == ReceiveFocus \/ ReceiveBlur \/ AnimationFrame
SpecFocus == InitFocus /\ [][NextFocus]_vars
\* The animation driver keeps rendering frames while an animation is in flight.
SpecFocusLive == InitFocus /\ [][NextFocus]_vars /\ WF_vars(AnimationFrame)

InitResolve ==
    ResolveInit /\ SurfaceIdle /\ ClassifyIdle /\ PayloadIdle /\ OrderIdle /\ PlayerIdle
NextResolve == ResolveFocusParams
SpecResolve == InitResolve /\ [][NextResolve]_vars

\* A FocusableTouchableOpacity and a FocusablePressable given the same props
\* and the same events.
InitTwin ==
    /\ FocusInit /\ fProps.component = "FocusableTouchableOpacity" /\ twin = MountedTwin
    /\ SurfaceIdle /\ ClassifyIdle /\ PayloadIdle /\ OrderIdle /\ PlayerIdle
SpecTwin == InitTwin /\ [][NextFocus]_vars

InitPlayer ==
    /\ isTV \in BOOLEAN
    /\ SetupInit /\ ModalInit /\ AudioIdle /\ WebIdle
    /\ FocusRest /\ SurfaceIdle /\ ClassifyIdle /\ PayloadIdle /\ OrderIdle
NextPlayer ==
    \/ Mount \/ OpeningAnimationCompletes \/ DimensionsChange \/ AppStateChange
    \/ PausedChanges \/ BrightnessTaskRuns \/ LockTaskRuns \/ LockSettles
    \/ Unmount \/ RestoreSettles
    \/ PressCopy \/ CopySettles \/ CopiedTimerFires \/ CloseModal
SpecPlayer == InitPlayer /\ [][NextPlayer]_vars

\* ErrorModal, AudioTrackModal and the web surface, each mounted, with their
\* timers; the clipboard module is loaded.
InitTimers ==
    /\ isTV = FALSE
    /\ SetupInit /\ sVariant = "shared" /\ sOS = "android" /\ sPaused = FALSE
    /\ mods = RequireModules("shared", 0, TRUE)
    /\ ModalInit /\ AudioInit
    /\ platformOS \in {"android", "web"}
    /\ WebInit
    /\ useExoPlayer = DefaultUseExoPlayer
    /\ hasOnCodecError = TRUE
    /\ hasOnTracksChanged = TRUE
    /\ currentStreamUrl = ""
    /\ processedStreamUrl = Urls[1]
    /\ fallbackGuard = FALSE
    /\ loads = 1
    /\ pastFallbacks = 0
    /\ errors = <<>>
    /\ last = NoEvent
    /\ FocusRest /\ ClassifyIdle /\ PayloadIdle /\ OrderIdle
NextTimers ==
    \/ PressCopy \/ CopySettles \/ CopiedTimerFires \/ CloseModal \/ UnmountErrorModal
    \/ SelectAudioTrack \/ AudioCloseTimerFires \/ AudioBackdropPress \/ UnmountAudioModal
    \/ WebIntervalFires \/ WebPausedChanges \/ WebStreamUrlChanges \/ WebUnmount
SpecTimers == InitTimers /\ [][NextTimers]_vars

-----------------------------------------------------------------------------
(* Properties *)

\* Does text sub occur in s?
ContainsText(s, sub) ==
    \E i \in 1..(Len(s) - Len(sub) + 1) : SubSeq(s, i, i + Len(sub) - 1) = sub

LastIsError(engine) == last.kind = "error" /\ last.engine = engine

\* C1: when ExoPlayer delivers an error whose normalized message matches a
\* codec pattern, the handler does not call onError, and it calls the owner's
\* onCodecError, once, for that event.
C1_CodecErrorFallsBack ==
    (LastIsError("exoplayer") /\ last.errorString.t = "string"
        /\ isCodecError(last.errorString.s))
    => /\ ~Invoked(last.calls, "onError")
       /\ hasOnCodecError => Cbs(last.calls) = <<"onCodecError">>

\* The payload {error: {errorCode: "MediaCodecVideoDecoderException"}} was
\* delivered and onCodecError, not onError, was called.
C1_Witness ==
    /\ LastIsError("exoplayer")
    /\ last.input = SessionErrors[1]
    /\ last.errorString = Str("MediaCodecVideoDecoderException")
    /\ Cbs(last.calls) = <<"onCodecError">>

\* The texts of the sub-fields of a payload that handleExoError reads.
PayloadTexts(error) ==
    LET e == Get(error, "error")
        strs == {error, e, Get(e, "errorString"), Get(e, "errorCode"), Get(error, "message")}
    IN {v.s : v \in {w \in strs : w.t = "string" /\ w.s # ""}}

\* C2: when ExoPlayer delivers an error whose normalized message matches no
\* codec pattern, onError is called exactly once, with error.errorString the
\* normalized message, which contains the text of every sub-field of the
\* payload, and onCodecError is not called.
C2_OtherErrorPropagated ==
    (pOutcome.engine = "exoplayer" /\ pOutcome.errorString.t = "string"
        /\ ~isCodecError(pOutcome.errorString.s))
    => /\ Cbs(pOutcome.calls) = <<"onError">>
       /\ pOutcome.calls[1].arg = [error |-> [errorString |-> pOutcome.errorString.s]]
       /\ \A txt \in PayloadTexts(pError) :
             ContainsText(pOutcome.calls[1].arg.error.errorString, txt)

\* {message: "Network timeout"} was handled: onError got exactly that text.
C2_Witness ==
    /\ pError = Obj(<<"error", "nativeStackAndroid", "message">>,
                    [error |-> Undefined, nativeStackAndroid |-> Undefined,
                     message |-> Str("Network timeout")])
    /\ Cbs(pOutcome.calls) = <<"onError">>
    /\ pOutcome.calls[1].arg.error.errorString = "Network timeout"

\* The error events of the current stream that switched the engine.
FallbacksOnStream == {k \in 1..Len(errors) : errors[k].fellBack}

\* C3: with an owner that supplies onCodecError, at most one fallback
\* transition occurs on a loaded stream: a codec error of ExoPlayer triggers
\* it, and the error that follows on the same stream triggers none and is
\* passed to onError.
C3_FallbackAtMostOnce ==
    hasOnCodecError
    => /\ Cardinality(FallbacksOnStream) <= 1
       /\ \A k \in 1..Len(errors) :
             (errors[k].engine = "exoplayer" /\ errors[k].classified = "codecError")
             => /\ errors[k].fellBack
                /\ errors[k].cbs = <<"onCodecError">>
                /\ k < Len(errors)
                   => /\ ~errors[k + 1].fellBack
                      /\ errors[k + 1].cbs = <<"onError">>

\* Two errors with codec text in a row on one stream: the first switched the
\* engine, the second, delivered by MPV, was passed to onError.
C3_Witness ==
    /\ Len(errors) = 2
    /\ errors[1].engine = "exoplayer" /\ errors[1].classified = "codecError"
    /\ errors[1].fellBack
    /\ LastIsError("mpv")
    /\ isCodecError(last.errorString.s)
    /\ Cbs(last.calls) = <<"onError">>

\* C4: the fallback guard is clear when a stream has just been loaded, and
\* after a fallback on an earlier stream a codec error of ExoPlayer on the
\* stream loaded now switches the engine again.
C4_NewStreamResetsGuard ==
    /\ errors = <<>> => ~fallbackGuard
    /\ (hasOnCodecError /\ pastFallbacks >= 1 /\ LastIsError("exoplayer")
           /\ last.errorString.t = "string" /\ isCodecError(last.errorString.s))
       => last.fellBack /\ ~useExoPlayer

\* A second stream fell back after the first one had.
C4_Witness ==
    /\ pastFallbacks >= 1
    /\ loads = 2
    /\ LastIsError("exoplayer")
    /\ last.fellBack
    /\ ~useExoPlayer

\* C5: the engine selection starts at ExoPlayer; on a loaded stream it changes
\* to MPV at most once, and once it is MPV it stays MPV as long as that stream
\* is loaded.
C5_EngineSelection ==
    /\ useExoPlayer = TRUE
    /\ [][/\ (~useExoPlayer /\ streamUrl' = streamUrl) => ~useExoPlayer'
          /\ (useExoPlayer /\ ~useExoPlayer') => (FallbacksOnStream = {} /\ streamUrl' = streamUrl)
          /\ Cardinality(FallbacksOnStream) <= 1]_vars

\* The engine fell back and stayed MPV through a later error of the stream.
C5_Witness ==
    /\ ~useExoPlayer
    /\ Len(errors) >= 2
    /\ errors[1].fellBack
    /\ last.engine = "mpv"

\* C6: an error delivered while MPV is active, with codec text or not, does
\* not call onCodecError and switches no engine; onError gets
\* {error: {errorString}} with the text MPV delivered.
C6_MpvErrorPropagated ==
    LastIsError("mpv")
    => /\ Cbs(last.calls) = <<"onError">>
       /\ last.calls[1].arg = [error |-> [errorString |-> last.input.s]]
       /\ ~last.fellBack
       /\ ~useExoPlayer

\* MPV delivered an error with codec text, which went to onError.
C6_Witness ==
    /\ LastIsError("mpv")
    /\ last.input = Str(MpvErrors[2])
    /\ isCodecError(last.input.s)
    /\ Cbs(last.calls) = <<"onError">>

\* The external callback of an event kind.
CallbackOf(kind) ==
    CASE kind = "load" -> "onLoad"
      [] kind = "progress" -> "onProgress"
      [] kind = "seek" -> "onSeek"
      [] kind = "end" -> "onEnd"
      [] kind = "buffer" -> "onBuffer"

\* C7: for each of load, progress, seek, end and buffer, an event the active
\* engine (ExoPlayer or MPV) produces calls the corresponding external
\* callback.
C7_EventsForwarded ==
    (last.engine \in {"exoplayer", "mpv"}
        /\ last.kind \in {"load", "progress", "seek", "end", "buffer"})
    => Invoked(last.calls, CallbackOf(last.kind))

\* The codec signatures of spec.md section 6: a text a, or a text a followed,
\* after any run ("any") or after one character ("one") without a line break,
\* by a text b.
Sig(a, gap, b) == [a |-> ToUpperCase(a), gap |-> gap, b |-> ToUpperCase(b)]
CodecSignatures == {
    Sig("exceeds_capabilities", "none", ""), Sig("no_exceeds_capabilities", "none", ""),
    Sig("decoder_exception", "none", ""), Sig("decoder", "any", "error"),
    Sig("codec", "any", "error"), Sig("unsupported", "any", "codec"),
    Sig("mediacodec", "any", "exception"), Sig("omx", "any", "error"),
    Sig("dolby", "any", "vision"), Sig("hevc", "any", "error"),
    Sig("no suitable decoder", "none", ""), Sig("decoder initialization failed", "none", ""),
    Sig("format", "one", "no_decoder"), Sig("no_decoder", "none", ""),
    Sig("decoding_failed", "none", ""), Sig("error_code_decoding", "none", ""),
    Sig("exoplaybackexception", "none", ""), Sig("mediacodecvideodecoder", "none", ""),
    Sig("mediacodecvideodecoderexception", "none", ""), Sig("decoder failed", "none", "") }

OccursAt(m, a, i) == i >= 1 /\ i + Len(a) - 1 <= Len(m) /\ SubSeq(m, i, i + Len(a) - 1) = a
NoLineBreak(m, from, to) == \A k \in from..to : CharAt(m, k) \notin {"\n", "\r"}

\* Does message m (in upper case) contain signature sig?
ContainsSignature(m, sig) ==
    \E i \in 1..Len(m) :
       /\ OccursAt(m, sig.a, i)
       /\ CASE sig.gap = "none" -> TRUE
            [] sig.gap = "one" -> /\ OccursAt(m, sig.b, i + Len(sig.a) + 1)
                                  /\ NoLineBreak(m, i + Len(sig.a), i + Len(sig.a))
            [] sig.gap = "any" ->
                  \E j \in (i + Len(sig.a))..Len(m) :
                     OccursAt(m, sig.b, j) /\ NoLineBreak(m, i + Len(sig.a), j - 1)

ContainsCodecSignature(msg) ==
    LET m == ToUpperCase(msg) IN \E sig \in CodecSignatures : ContainsSignature(m, sig)

\* C8: a message that embeds an instance of a pattern of the list, at any
\* position and in any letter case, is classified codecError.
C8_EmbeddedPatternIsCodec ==
    (cPat # 0 /\ cResult # "pending") => cResult = "codecError"

\* "decoder.*error" in upper case, with text in its gap, a prefix and a suffix.
C8_Witness ==
    /\ cPat = 4
    /\ cMsg = "ERROR: DECODER_X1 INIT ERROR (code 4001)"
    /\ cResult = "codecError"

\* C9: a message that contains none of the codec signatures, the empty
\* message included, is classified otherError.
C9_NoPatternIsOther ==
    (cResult # "pending" /\ ~ContainsCodecSignature(cMsg)) => cResult = "otherError"

\* The empty message, and a message whose two halves of a pattern are on
\* different lines, were classified otherError.
C9_Witness ==
    /\ cMsg \in {"", "decoder\nerror"}
    /\ cResult = "otherError"

\* The payloads whose message is empty or cannot be parsed: nothing, null, an
\* empty text, or an object none of whose sub-fields has a text.
EmptyMessage(error) ==
    \/ error.t \in {"undefined", "null"}
    \/ error = Str("")
    \/ /\ error.t = "object"
       /\ PayloadTexts(error) = {}
       /\ ~Truthy(Get(Get(error, "error"), "errorCode"))
       /\ Get(error, "nativeStackAndroid") \in {Undefined, Arr(<<>>)}

\* C10: handling an error payload never throws, and a payload with an empty
\* or unparseable message is classified otherError.
C10_HandlingNeverThrows ==
    pOutcome.engine = "exoplayer"
    => /\ ~pOutcome.threw
       /\ EmptyMessage(pError) => pOutcome.classified = "otherError"

\* The text a part contributes to the concatenation.
PartText(part) == Join(<<part>>, " ")

\* C11 as stated: every order of concatenation of the extracted sub-fields
\* gives the classification the code's order gives.
C11_OrderIrrelevant ==
    oResult # "pending" => oResult = ClassifyParts(ErrorParts(oError))

\* C11 as amended: when one of the sub-fields contains a codec signature by
\* itself, the concatenation is classified codecError in every order.
C11_SignatureInOneField ==
    (/\ oResult # "pending"
     /\ \E i \in 1..Len(ErrorParts(oError)) :
           ContainsCodecSignature(PartText(ErrorParts(oError)[i])))
    => oResult = "codecError"

C11_Witness ==
    /\ oResult = "codecError"
    /\ Len(oOrder) >= 2
    /\ oOrder # Identity(Len(oOrder))
    /\ \E i \in 1..Len(ErrorParts(oError)) :
          ContainsCodecSignature(PartText(ErrorParts(oError)[i]))

\* Focus visuals are enabled for the control.
FocusEnabled == EnableTVFocus(fProps, isTV)
\* What the control renders in the current state.
Rendered == Render(fProps, isTV, tvFocusPresets, Controller(isFocused, focusProgress, anim))
\* The transition is at rest at progress 0.
AtRestUnfocused == focusProgress = 0 /\ ~anim.running

\* C12: with focus visuals enabled, once the last event delivered is a blur
\* (also one that arrived before the focus transition completed), the
\* transition comes to rest at progress 0, unless a later focus event retargets it.
C12_BlurReturnsToZero ==
    (FocusEnabled /\ fLast = "blur") ~> (AtRestUnfocused \/ fLast = "focus")

C12_Witness ==
    /\ FocusEnabled
    /\ fFocusCount = 1 /\ fBlurCount = 1
    /\ fLast = "blur" /\ fInterrupted
    /\ anim.fromValue > 0 /\ anim.fromValue < Unit
    /\ AtRestUnfocused

\* C13: with focus visuals enabled, isFocused is true exactly when the last
\* event delivered was a focus event (false before any event), and the target
\* of the animation is 1 exactly when isFocused, 0 otherwise.
C13_StateFollowsLastEvent ==
    FocusEnabled =>
        /\ isFocused <=> fLast = "focus"
        /\ anim.toValue = (IF isFocused THEN Unit ELSE 0)

C13_Witness ==
    /\ FocusEnabled
    /\ fFocusCount = 2 /\ fBlurCount = 1
    /\ fLast = "blur" /\ ~isFocused /\ anim.toValue = 0

\* C14 as stated: the scale lies in [1, resolved focus scale], the ring
\* opacity in [0, 1] and the ring inset scale in [0.985, 1].
C14_ScaleWithinOneAndResolved ==
    /\ Rendered.scale >= 1000
    /\ Rendered.scale <= resolvedScale(fProps, tvFocusPresets).n
    /\ Rendered.ringOpacity >= 0 /\ Rendered.ringOpacity <= Unit
    /\ Rendered.ringScale >= 985 /\ Rendered.ringScale <= 1000

\* C14 as amended: the progress never leaves [0, 1]; the scale lies between 1
\* and the resolved focus scale, whichever of the two is larger (in
\* [1, resolved scale] whenever the resolved scale is at least 1); the ring
\* opacity lies in [0, 1] and the ring inset scale in [0.985, 1].
C14_OutputsBetweenEndpoints ==
    LET rs == resolvedScale(fProps, tvFocusPresets).n IN
    /\ focusProgress >= 0 /\ focusProgress <= Unit
    /\ Rendered.scale >= (IF rs < 1000 THEN rs ELSE 1000)
    /\ Rendered.scale <= (IF rs < 1000 THEN 1000 ELSE rs)
    /\ Rendered.ringOpacity >= 0 /\ Rendered.ringOpacity <= Unit
    /\ Rendered.ringScale >= 985 /\ Rendered.ringScale <= 1000

C14_Witness ==
    /\ FocusEnabled
    /\ anim.running /\ fInterrupted
    /\ focusProgress > 0 /\ focusProgress < Unit
    /\ Rendered.scale > 1000
    /\ Rendered.scale < resolvedScale(fProps, tvFocusPresets).n
    /\ Rendered.ringScale > 985 /\ Rendered.ringScale < 1000

\* C15: with focus visuals disabled, no scale transform, focus ring or focus
\* shadow is rendered, isFocused and the progress keep their initial values,
\* no animation starts, and each event only calls the caller's own callback.
C15_DisabledIsInert ==
    ~FocusEnabled =>
        /\ ~Rendered.transform /\ ~Rendered.ring /\ ~Rendered.shadow
        /\ ~Rendered.highlight
        /\ isFocused = FALSE
        /\ focusProgress = 0
        /\ anim = NoAnim
        /\ onFocusCalls = (IF fProps.onFocus = "none" THEN 0 ELSE fFocusCount)
        /\ onBlurCalls = (IF fProps.onBlur = "none" THEN 0 ELSE fBlurCount)

C15_Witness ==
    /\ ~FocusEnabled
    /\ fFocusCount >= 1 /\ fBlurCount >= 1
    /\ onFocusCalls = fFocusCount /\ onBlurCalls = fBlurCount

\* C16: with focus visuals disabled, no handler of the controller is attached
\* to the focus and blur events of the control, and the control is rendered
\* without an animated wrapper.
C16_DisabledNeverSubscribes ==
    ~FocusEnabled => (~Rendered.handlersAttached /\ ~Rendered.animatedWrapper)

\* C17: the caller's onFocus has been called once per focus event delivered,
\* its onBlur once per blur event, and ProviderFilter's onFocus has called
\* scrollToIndex once per focus event on a TV platform and never elsewhere.
C17_CallbackOncePerEvent ==
    /\ onFocusCalls = (IF fProps.onFocus = "none" THEN 0 ELSE fFocusCount)
    /\ onBlurCalls = (IF fProps.onBlur = "none" THEN 0 ELSE fBlurCount)
    /\ scrollCalls = (IF fProps.onFocus = "scrollToIndex" /\ isTV THEN fFocusCount ELSE 0)

C17_Witness ==
    /\ fProps.onFocus = "scrollToIndex" /\ isTV
    /\ fFocusCount = 2 /\ onFocusCalls = 2 /\ scrollCalls = 2

\* C18: a focus or blur event leaves the progress at the value it has reached
\* and, with focus visuals enabled, starts the new transition from that value.
C18_RetargetFromCurrent ==
    [][(fFocusCount' # fFocusCount \/ fBlurCount' # fBlurCount)
        => /\ focusProgress' = focusProgress
           /\ FocusEnabled => (anim'.running /\ anim'.fromValue = focusProgress)]_vars

C18_Witness ==
    /\ FocusEnabled /\ fInterrupted
    /\ anim.running /\ anim.elapsed = 0
    /\ anim.fromValue > 0 /\ anim.fromValue < Unit
    /\ focusProgress = anim.fromValue

\* The preset table and the defaults as C19 states them.
StatedPresets ==
    [n \in {"card", "poster", "pill", "button", "icon", "listRow"} |->
        CASE n = "card" -> <<1050, 3, 16>>
          [] n = "poster" -> <<1060, 3, 12>>
          [] n = "pill" -> <<1040, 3, 999>>
          [] n = "button" -> <<1040, 3, 18>>
          [] n = "icon" -> <<1060, 3, 999>>
          [] n = "listRow" -> <<1030, 3, 14>>]
StatedDefaults == <<1060, 3, 12>>
Supplied(v) == v.t \notin {"undefined", "null"}
StatedParam(override, k) ==
    IF Supplied(override) THEN override
    ELSE IF fProps.preset.t = "string" /\ fProps.preset.s \in DOMAIN StatedPresets
    THEN Num(StatedPresets[fProps.preset.s][k])
    ELSE Num(StatedDefaults[k])

\* C19: each resolved focus parameter is the explicit override when one is
\* supplied, otherwise the value of the named preset, otherwise the default;
\* the preset table keeps the stated values.
C19_ResolvedParameters ==
    /\ \A n \in DOMAIN StatedPresets :
          /\ n \in DOMAIN tvFocusPresets
          /\ tvFocusPresets[n].focusScale = StatedPresets[n][1]
          /\ tvFocusPresets[n].focusRingWidth = StatedPresets[n][2]
          /\ tvFocusPresets[n].focusBorderRadius = StatedPresets[n][3]
    /\ DOMAIN tvFocusPresets = DOMAIN StatedPresets
    /\ rResolved.done =>
          /\ rResolved.scale = StatedParam(fProps.focusScale, 1)
          /\ rResolved.ringWidth = StatedParam(fProps.focusRingWidth, 2)
          /\ rResolved.borderRadius = StatedParam(fProps.focusBorderRadius, 3)

C19_Witness ==
    /\ rResolved.done
    /\ fProps.preset = Str("pill")
    /\ fProps.focusScale = Num(0) /\ rResolved.scale = Num(0)
    /\ fProps.focusRingWidth = Undefined /\ rResolved.ringWidth = Num(3)
    /\ fProps.focusBorderRadius = Num(20) /\ rResolved.borderRadius = Num(20)

\* C20: on a TV platform no call is ever made to the clipboard, brightness or
\* orientation modules (none of them is loaded, the copy button is not
\* rendered, no read of the brightness and no orientation lock is pending),
\* and the brightness given to the player is the fallback 1.0.
C20_TVUsesNoCollaborators ==
    isTV =>
        /\ collab = NoCalls
        /\ mods = NoModules
        /\ sTasks = NoTasks
        /\ ~CopyButtonRendered /\ ~copied /\ eAwaits = 0
        /\ sOrientation = "free" /\ ~orientationLocked
        /\ sPhase # "init" => sBrightness = 1000

C20_Witness ==
    /\ isTV
    /\ sVariant = "shared" /\ sAnimDone
    /\ sPhase = "unmounted"
    /\ sEvents >= 1
    /\ sBrightness = 1000
    /\ ~eShow

\* C21: no timer runs its callback after the component that owns it is
\* unmounted: a 2000 ms timer of ErrorModal fires only while ErrorModal is
\* mounted, a 200 ms timer of AudioTrackModal only while AudioTrackModal is
\* mounted, and the 500 ms interval of the web surface only while VideoSurface
\* is mounted.
C21_NoTimerAfterTeardown ==
    [][/\ (eTimers' < eTimers => eMounted)
       /\ (audio'.timers < audio.timers => audio.mounted)
       /\ (web'.fires > web.fires => web.mounted)]_vars

\* C22: a second copy made while the 'copied' indicator is shown cancels the
\* timer of the first: at most one 2000 ms timer is pending, and while a timer
\* is pending (2000 ms have not passed since the latest copy) the indicator of
\* the mounted modal is on.
C22_SupersededTimerCancelled ==
    /\ eTimers <= 1
    /\ (eMounted /\ eTimers > 0 => copied)

\* C23: no error is swallowed: every error event the mounted engine delivers
\* makes its handler call onCodecError or the external onError, whether or not
\* the owner supplied onCodecError.
C23_NoErrorSwallowed ==
    last.kind = "error" =>
        Invoked(last.calls, "onCodecError") \/ Invoked(last.calls, "onError")

\* C24: on a native platform one engine is mounted: ExoPlayer exactly when
\* useExoPlayer is true, otherwise MPV; every event delivered comes from the
\* engine selected when it is delivered, and only events of ExoPlayer, the
\* primary engine, are classified.
C24_OneEngineForwards ==
    /\ [](platformOS # "web" =>
             MountedEngine = IF useExoPlayer THEN "exoplayer" ELSE "mpv")
    /\ [][(platformOS # "web" /\ (last' # last \/ errors' # errors) /\ last'.kind # "none") =>
             /\ last'.engine = IF useExoPlayer THEN "exoplayer" ELSE "mpv"
             /\ (last'.classified # "none" => last'.engine = "exoplayer")]_vars

\* After a fallback MPV, now the selected engine, has delivered an error that
\* was not classified.
C24_Witness ==
    /\ platformOS # "web"
    /\ Len(errors) >= 2
    /\ errors[1].engine = "exoplayer" /\ errors[1].fellBack
    /\ last.engine = "mpv" /\ last.kind = "error" /\ last.classified = "none"

\* C25: hiding the status bar is paired with restoring it: in both variants
\* of the hook and on every platform, once the hook is unmounted the status bar
\* is visible again.
C25_StatusBarRestored ==
    sPhase = "unmounted" => ~statusBarHidden

\* C26: keep-awake is active exactly while the player is mounted and not
\* paused, after any sequence of pause and resume changes, and it is off once
\* the player is unmounted.
C26_KeepAwakeWhilePlaying ==
    /\ sPhase # "init" => (keepAwake <=> (sPhase = "mounted" /\ ~sPaused))
    /\ sPhase = "unmounted" => ~keepAwake

\* After two changes of paused the player is playing and keep-awake is active.
C26_Witness ==
    sPhase = "mounted" /\ sEvents >= 2 /\ ~sPaused /\ keepAwake

C28_ComponentsAgree ==
    twin.mounted =>
        /\ twin.isFocused = isFocused
        /\ twin.anim.toValue = anim.toValue
        /\ twin.anim.running = anim.running
        /\ PressableEnableTVFocus(fProps, isTV) = EnableTVFocus(fProps, isTV)
        /\ PressableResolvedScale(fProps, tvFocusPresets) = resolvedScale(fProps, tvFocusPresets)
        /\ PressableResolvedRingWidth(fProps, tvFocusPresets)
              = resolvedRingWidth(fProps, tvFocusPresets)
        /\ PressableResolvedBorderRadius(fProps, tvFocusPresets)
              = resolvedBorderRadius(fProps, tvFocusPresets)
        /\ twin.onFocusCalls = onFocusCalls
        /\ twin.onBlurCalls = onBlurCalls

\* Both controls have received focus, blur and focus again: both are focused
\* and the caller's callbacks were called by both.
C28_Witness ==
    /\ twin.mounted
    /\ fFocusCount = 2 /\ fBlurCount = 1
    /\ isFocused /\ twin.isFocused
    /\ twin.onFocusCalls = 2 /\ twin.onBlurCalls = 1

\* C29: the initial setup runs exactly once per mount in both variants: once
\* the hook has mounted, setVolume(1.0) and the brightness initialisation have
\* each been performed exactly once, whatever dimension, app-state, pause or
\* opening-animation events have followed.
C29_SetupOncePerMount ==
    sPhase # "init" => sInits.setVolume = 1 /\ sInits.initBrightness = 1

=============================================================================
